---- MODULE Spec2Model ----
\* Verification model of the resolution engine of CustomMtGEngine:
\*   - the LIFO stack (stack_system/StackEngine.py) and the effect engine
\*     it hands entries to (effect_engine.py),
\*   - the trigger queue (stack_system/TriggerEngine.py) and the zone moves of
\*     game_core/GameState.py that feed it,
\*   - the layer manager (oracle_parser/OracleRulesLayer.py) and the static
\*     effect descriptor (StaticEffectDescriptor.py).
\* Every method is synchronous and runs to completion, so each method call
\* is one action.
EXTENDS Integers, Sequences, FiniteSets, TLC

\* ---------------------------------------------------------------------
\* Bounds
\* ---------------------------------------------------------------------
MaxPush == 3
MaxPending == 2
MaxRegistered == 2
MaxEffects == 2
MaxApply == 2
MaxCombatCalls == 3
MaxExecute == 3
MaxParse == 3
MaxDepth == 4
MaxTurns == 2

\* ---------------------------------------------------------------------
\* Program constants and the objects of the game
\* ---------------------------------------------------------------------
StartLife == 20

Players == {"P1", "P2"}

Perms == {"c1", "c2"}

ZoneNames == {"hand", "library", "battlefield", "graveyard", "exile"}

\* card.oracle_text contains "enters the battlefield"
EtbText == [c \in Perms |-> c = "c1"]

\* the objects whose is_valid() answer changes during the game
Targetable == {"P2", "c1"}

\* the spells that are cast: the declared targets and the action of the leaf
CastShapes ==
    {[targets |-> <<>>, action |-> "gain_life"],
     [targets |-> <<"P2", "c1">>, action |-> "deal_damage"],
     [targets |-> <<"c1">>, action |-> "destroy_target"]}

\* the methods StackEngine defines
StackEngineMethods == {"push", "pop", "peek", "is_empty", "resolve_top"}

VARIABLES
    stack,        \* StackEngine._stack, bottom first
    resolved,     \* ids of the stack objects whose resolved flag is True
    nextId,       \* number of stack objects created so far
    valid,        \* the answer of each object's is_valid()
    life,         \* Player.life
    damage,       \* marked damage of each permanent
    zones,        \* GameState.zones: player -> zone name -> list of cards
    cardZone,     \* card.zone
    controller,   \* card.controller
    registered,   \* TriggerEngine.registered (the sources)
    pending,      \* TriggerEngine.pending
    fired,        \* history: fire_now has been called
    events,       \* what narrator.log received
    last,         \* the last call: its name, the object it removed, its result
    layers,       \* LayerManager.layers
    sublayers_7,  \* LayerManager.sublayers_7
    effectCount,  \* number of descriptors created so far
    applied,      \* the descriptors the last apply_layers call applied, in order
    applyCount,   \* number of apply_layers calls so far
    power,        \* permanent.power
    toughness,    \* permanent.toughness
    abilities,    \* permanent.abilities
    life_gain_prevention,  \* permanents on which the flag has been set
    must_attack,  \* permanents on which the flag has been set
    phase_index,  \* GameState.phase_index
    turn_index,   \* GameState.turn_index
    attackers,    \* CombatEngine.attackers: creature -> defender, as inserted
    blockers,     \* CombatEngine.blockers: blocker -> attackers, as inserted
    combat,       \* game_state.combat, once it exists
    tapped,       \* card.tapped
    status,       \* card.status
    loyalty,      \* planeswalker.loyalty
    log,          \* the list the last combat call returned
    assignments,  \* the assignments the last declaration iterated over
    combatCalls,  \* number of CombatEngine calls past their early returns
    declared,     \* history: what was recorded since this combat began
    damageAssigned,  \* history: damage has been assigned in this combat
    target_resolved,  \* effect["target_resolved"] of the leaves that have it
    returned,     \* the lines of the string the last execute returned
    executions,   \* number of execute calls made directly
    executed,     \* the card and the context of the last direct execute call
    source_text,  \* the argument of the last parser call
    parsed,       \* what the last parser call returned
    parseCalls,   \* number of parser calls made from outside
    seen,         \* history: the first tokenization of each text
    tokenizer,    \* the Tokenizer instance the last tokenize call ran on
    calls,        \* the compile calls in progress, outermost first
    current_index,      \* phase_manager.current_index
    turn_player_index,  \* GameManager.turn_player_index
    passed,       \* PriorityManager.passed
    active_index,  \* PriorityManager.active_index
    headless_mode,  \* GameManager.headless_mode
    pc,           \* where the game manager is: in no call, in execute_turn
                  \* between two phases, or in the loop of execute_phase
    turns,        \* number of execute_turn calls that have returned
    lands_played_this_turn  \* Player.lands_played_this_turn

stackVars == <<stack, resolved, nextId, valid, events>>
gameVars == <<life, damage, zones, cardZone, controller, registered>>
triggerVars == <<pending, fired>>
layerVars == <<layers, sublayers_7, effectCount, applied, applyCount>>
permVars == <<power, toughness, abilities, life_gain_prevention, must_attack>>
combatVars == <<phase_index, turn_index, attackers, blockers, combat, tapped,
                status, loyalty, log, assignments, combatCalls, declared,
                damageAssigned>>
effectVars == <<target_resolved, returned, executions, executed>>
parserVars == <<source_text, parsed, parseCalls, seen, tokenizer, calls>>
managerVars == <<current_index, turn_player_index, passed, active_index,
                 headless_mode, pc, turns, lands_played_this_turn>>
vars == <<stack, resolved, nextId, valid, life, damage, zones, cardZone,
          controller, registered, pending, fired, events, last, layers,
          sublayers_7, effectCount, applied, applyCount, power, toughness,
          abilities, life_gain_prevention, must_attack, phase_index,
          turn_index, attackers, blockers, combat, tapped, status, loyalty,
          log, assignments, combatCalls, declared, damageAssigned,
          target_resolved, returned, executions, executed, source_text,
          parsed, parseCalls, seen, tokenizer, calls, current_index,
          turn_player_index, passed, active_index, headless_mode, pc, turns,
          lands_played_this_turn>>

\* ---------------------------------------------------------------------
\* Sequence helpers
\* ---------------------------------------------------------------------
\* list.remove(x): drops the first occurrence
RECURSIVE RemoveFirst(_, _)
RemoveFirst(s, x) ==
    IF s = <<>> THEN <<>>
    ELSE IF Head(s) = x THEN Tail(s)
    ELSE <<Head(s)>> \o RemoveFirst(Tail(s), x)

\* list.pop(i), the list that is left
RemoveAt(s, i) == SubSeq(s, 1, i - 1) \o SubSeq(s, i + 1, Len(s))

InSeq(s, x) == \E i \in 1..Len(s) : s[i] = x

\* ---------------------------------------------------------------------
\* Stack objects
\* ---------------------------------------------------------------------
NoObject ==
    [id |-> 0, kind |-> "none", source |-> "none", controller |-> "none",
     targets |-> <<>>, effect_ir |-> <<>>, optional |-> FALSE]

\* op: the method called; obj: the stack object it removed; outcome: what it
\* returned; asked: what controller_wants_to_resolve() answered, if called;
\* engine: EffectEngine.execute was called; layer: the layer of the
\* descriptor it was given; error: the exception it raised
NoCall ==
    [op |-> "none", obj |-> NoObject, outcome |-> "none", asked |-> "no call",
     engine |-> FALSE, layer |-> [t |-> "no call"], error |-> "none"]

\* a dict leaf of the effect tree
Leaf(action, amount, target) ==
    [action |-> action, amount |-> amount, target |-> target]

\* StackObject(source, controller, targets, effect_ir); optional is
\* is_optional ("you may" in the source text)
StackObject(id, kind, source, ctrl, targets, ir, optional) ==
    [id |-> id, kind |-> kind, source |-> source, controller |-> ctrl,
     targets |-> targets, effect_ir |-> ir, optional |-> optional]

\* ---------------------------------------------------------------------
\* Game state as a value, and GameState.move_card
\* ---------------------------------------------------------------------
GS ==
    [life |-> life, damage |-> damage, zones |-> zones,
     cardZone |-> cardZone, controller |-> controller,
     registered |-> registered]

SetGS(g) ==
    /\ life' = g.life
    /\ damage' = g.damage
    /\ zones' = g.zones
    /\ cardZone' = g.cardZone
    /\ controller' = g.controller
    /\ registered' = g.registered

\* TriggerEngine.register: the source of the stored trigger
RegisterOp(reg, source) == Append(reg, source)

move_card(g, card, player, new_zone) ==
    LET removed == [p \in Players |->
                      [z \in ZoneNames |-> RemoveFirst(g.zones[p][z], card)]]
        etb == new_zone = "battlefield" /\ EtbText[card]
    IN  [g EXCEPT
            !.zones = [removed EXCEPT ![player][new_zone] = Append(@, card)],
            !.cardZone = [@ EXCEPT ![card] = new_zone],
            !.controller = [@ EXCEPT ![card] = player],
            !.registered = IF etb THEN RegisterOp(@, card) ELSE @]

\* ---------------------------------------------------------------------
\* Effect engine
\* ---------------------------------------------------------------------
\* a log message: who, what, to or about whom, how much
Message(subject, text, object, amount) ==
    [subject |-> subject, text |-> text, object |-> object,
     amount |-> amount]

\* "key in d", for the dictionaries of the effect tree and of the context
Has(d, key) == key \in DOMAIN d

\* an execution works on a value x: the game state, the references of
\* context.dynamic_refs, the target_resolved entries written into the
\* leaves, and the lines logged so far
Says(x, subject, text, object, amount) ==
    [x EXCEPT !.logs = Append(@, Message(subject, text, object, amount))]

\* Player.draw: cards go from the top of the library to the hand; drawing
\* from an empty library loses the game (life 0)
RECURSIVE draw(_, _, _)
draw(g, player, count) ==
    IF count <= 0 THEN g
    ELSE IF g.zones[player]["library"] = <<>>
    THEN [g EXCEPT !.life[player] = 0]
    ELSE draw([g EXCEPT
                  !.zones[player]["hand"] =
                      Append(@, Head(g.zones[player]["library"])),
                  !.zones[player]["library"] = Tail(@)],
              player, count - 1)

\* one iteration of the "for tgt in targets" loops of _apply_action; a
\* token has neither life nor damage
ApplyToTarget(x, action, amount, tgt) ==
    IF action = "deal_damage"
    THEN IF tgt \in Players
         THEN Says([x EXCEPT !.g.life[tgt] = @ - amount],
                   tgt, "takes damage (life)", "", amount)
         ELSE IF tgt \in DOMAIN x.g.damage
         THEN Says([x EXCEPT !.g.damage[tgt] = @ + amount],
                   tgt, "takes damage (marked)", "", amount)
         ELSE x
    ELSE IF action = "destroy_target" /\ tgt \in DOMAIN x.g.cardZone
    THEN Says([x EXCEPT !.g = move_card(@, tgt, @.controller[tgt],
                                        "graveyard")],
              "", "Destroying target:", tgt, 0)
    ELSE x

RECURSIVE ApplyToTargets(_, _, _, _)
ApplyToTargets(x, action, amount, targets) ==
    IF targets = <<>> THEN x
    ELSE ApplyToTargets(ApplyToTarget(x, action, amount, Head(targets)),
                        action, amount, Tail(targets))

\* the branches of _apply_action that only append one line
LogOnly ==
    [grant_keyword |-> "Keyword granted:",
     apply_pt_modifier |-> "Applied P/T modifier:",
     search_library |-> "Searching library",
     discard_cards |-> "Discarding cards",
     exile_from_hand |-> "Exiling card from opponent's hand",
     multi_player_discard |-> "Each opponent discards a card",
     untap_permanents |-> "Untapping permanents",
     put_into_library_depth |-> "Put into library",
     conditional_fallback |-> "[INFO] Conditional fallback detected"]

\* the else branch of _apply_action: a variant that appends nothing
UnknownEffectSilent(x, effect) == x

\* the else branch of _apply_action: the diagnostic block
UnknownEffect(x, effect) ==
    LET raw == IF Has(effect, "raw_text") THEN effect.raw_text
               ELSE "<missing raw_text>"
        full == IF Has(effect, "id") /\ effect.id \in DOMAIN x.target_resolved
                THEN [node |-> effect,
                      target_resolved |-> x.target_resolved[effect.id]]
                ELSE [node |-> effect]
    IN  Says(Says(Says(Says(x, "", "[UNKNOWN EFFECT]", "", 0),
                       "", "  Action:", effect.action, 0),
                  "", "  Raw Text:", raw, 0),
             "", "  Full Effect:", full, 0)

\* EffectEngine._apply_action: a leaf with a reference_tag and no
\* target_resolved looks the tag up in context.dynamic_refs and keeps what
\* it finds in the leaf; the targets are the leaf's own target_resolved or
\* target field, and context.targets is not read
_apply_action(x, effect, context) ==
    LET y == IF /\ Has(effect, "reference_tag")
                /\ effect.id \notin DOMAIN x.target_resolved
                /\ effect.reference_tag \in DOMAIN x.dynamic_refs
             THEN [x EXCEPT !.target_resolved =
                      [i \in DOMAIN @ \cup {effect.id} |->
                          IF i = effect.id
                          THEN x.dynamic_refs[effect.reference_tag]
                          ELSE @[i]]]
             ELSE x
        targets == IF Has(effect, "id") /\ effect.id \in DOMAIN y.target_resolved
                   THEN <<y.target_resolved[effect.id]>>
                   ELSE IF Has(effect, "target") THEN effect.target
                   ELSE <<>>
        Amount(default) ==
            IF Has(effect, "amount") THEN effect.amount ELSE default
        who == context.controller
    IN  IF effect.action = "draw_card"
        THEN Says([y EXCEPT !.g = draw(@, who, Amount(1))],
                  who, "draws card(s)", "", Amount(1))
        ELSE IF effect.action = "gain_life"
        THEN Says([y EXCEPT !.g.life[who] = @ + Amount(1)],
                  who, "gains life", "", Amount(1))
        ELSE IF effect.action = "lose_life"
        THEN Says([y EXCEPT !.g.life[who] = @ - Amount(1)],
                  who, "loses life", "", Amount(1))
        ELSE IF effect.action \in {"deal_damage", "destroy_target"}
        THEN ApplyToTargets(y, effect.action, Amount(0), targets)
        ELSE IF effect.action = "create_token"
        THEN LET z == Says(y, "", "Token created:", effect.token, 0)
             IN  IF Has(effect, "store_as")
                 THEN [z EXCEPT !.dynamic_refs =
                          [t \in DOMAIN @ \cup {effect.store_as} |->
                              IF t = effect.store_as THEN effect.token
                              ELSE @[t]]]
                 ELSE z
        ELSE IF effect.action \in DOMAIN LogOnly
        THEN Says(y, "", LogOnly[effect.action], "", 0)
        ELSE UnknownEffect(y, effect)

\* EffectEngine._walk over a dict node, and over the children of a list
RECURSIVE _walk(_, _, _), WalkEach(_, _, _)
_walk(x, node, context) ==
    IF Has(node, "type") /\ node.type = "conditional"
    THEN IF node.condition \in {"if you do", "if you discarded",
                                "if they can't", "you control a nissa"}
         THEN WalkEach(x, node.then, context)
         ELSE WalkEach(x, node.else, context)
    ELSE IF Has(node, "modal_choices") /\ node.modal_choices # <<>>
    THEN LET index == IF Has(context.flags, "modal_choice")
                      THEN context.flags.modal_choice ELSE 0
         IN  IF 0 <= index /\ index < Len(node.modal_choices)
             THEN _walk(x, node.modal_choices[index + 1], context)
             ELSE x
    ELSE IF Has(node, "repeat") /\ node.repeat
    THEN LET chain == node.effect_chain
         IN  WalkEach(x,
                      [i \in 1..(Cardinality(Players) * Len(chain)) |->
                          chain[((i - 1) % Len(chain)) + 1]],
                      context)
    ELSE IF Has(node, "effect_chain")
    THEN WalkEach(x, node.effect_chain, context)
    ELSE IF Has(node, "action") /\ node.action # ""
    THEN _apply_action(x, node, context)
    ELSE x

WalkEach(x, nodes, context) ==
    IF nodes = <<>> THEN x
    ELSE WalkEach(_walk(x, Head(nodes), context), Tail(nodes), context)

\* EffectEngine.execute on a list of nodes
execute(g, effect_ir, context) ==
    WalkEach([g |-> g, dynamic_refs |-> context.dynamic_refs,
              target_resolved |-> target_resolved, logs |-> <<>>],
             effect_ir, context)

\* the behavior trees of four cards, each produced once and kept by its
\* card: a chain with a leaf outside the dispatch table, a modal node, a
\* leaf with a pronoun, and a token stored for a later leaf
CardIR ==
    [chain |->
        <<[effect_chain |->
             <<[action |-> "lose_life", amount |-> 1],
               [action |-> "return_to_hand", id |-> 1,
                raw_text |-> "return it to its owner's hand"],
               [action |-> "gain_life", amount |-> 2]>>,
           modal_choices |-> <<>>, repeat |-> FALSE]>>,
     modal |->
        <<[effect_chain |-> <<>>, repeat |-> FALSE,
           modal_choices |->
             <<[action |-> "gain_life", amount |-> 3],
               [action |-> "deal_damage", amount |-> 1,
                target |-> <<"P2">>]>>]>>,
     pronoun |->
        <<[action |-> "deal_damage", amount |-> 1, id |-> 2,
           reference_tag |-> "that_creature"]>>,
     token |->
        <<[action |-> "create_token", token |-> "tok",
           store_as |-> "those_tokens"],
          [action |-> "grant_keyword", keyword |-> "haste", id |-> 3,
           reference_tag |-> "those_tokens"]>>]

\* the direct execute calls: the card whose tree is executed, the flags
\* and the references of the context it is given
ExecuteCalls ==
    {[card |-> c, flags |-> <<>>, dynamic_refs |-> <<>>] :
        c \in DOMAIN CardIR}
    \cup {[card |-> "modal", flags |-> [modal_choice |-> i],
           dynamic_refs |-> <<>>] : i \in -1..2}
    \cup {[card |-> "pronoun", flags |-> <<>>,
           dynamic_refs |-> [that_creature |-> c]] : c \in Perms}

\* engine.execute(card.behavior_tree, context), called by P1
Execute ==
    /\ executions < MaxExecute
    /\ executions' = executions + 1
    /\ \E call \in ExecuteCalls :
           LET context == [source |-> call.card, controller |-> "P1",
                           targets |-> <<>>, flags |-> call.flags,
                           dynamic_refs |-> call.dynamic_refs]
               x == execute(GS, CardIR[call.card], context)
           IN  /\ SetGS(x.g)
               /\ target_resolved' = x.target_resolved
               /\ returned' = x.logs
               /\ executed' = call
    /\ last' = [NoCall EXCEPT !.op = "execute"]
    /\ UNCHANGED parserVars
    /\ UNCHANGED stackVars
    /\ UNCHANGED triggerVars
    /\ UNCHANGED layerVars
    /\ UNCHANGED permVars
    /\ UNCHANGED combatVars
    /\ UNCHANGED managerVars

\* ---------------------------------------------------------------------
\* StackObject methods
\* ---------------------------------------------------------------------
NeverChecked(t) == TRUE

\* StackObject._is_target_legal
_is_target_legal(t) == valid[t]

LegalTargets(targets) == SelectSeq(targets, _is_target_legal)

has_legal_targets(obj) ==
    IF obj.targets = <<>> THEN TRUE
    ELSE \E i \in 1..Len(obj.targets) : _is_target_legal(obj.targets[i])

NeverDeclines(obj, wants) == FALSE

\* the test of the decline branch of resolve_top; wants is the answer of
\* controller_wants_to_resolve()
Declines(obj, wants) == obj.optional /\ ~wants

\* the call of controller_wants_to_resolve() the test makes: none when
\* is_optional is false
Asked(obj, wants) ==
    IF ~obj.optional THEN "no call" ELSE IF wants THEN "yes" ELSE "no"

EffectContext(obj, legal) ==
    [source |-> obj.source, controller |-> obj.controller, targets |-> legal,
     flags |-> <<>>, dynamic_refs |-> <<>>]

KeepFlags(r, id) == r

\* obj.resolved = True
MarkResolved(r, id) == r \cup {id}

AlwaysResolutionEvent(outcome) == "StackResolution"

\* the event class resolve_top builds for each outcome
EventOf(outcome) ==
    IF outcome = "fizzle" THEN "StackFizzle"
    ELSE IF outcome = "declined" THEN "StackDeclined"
    ELSE "StackResolution"

\* narrator.log(event)
Log(ev, kind, obj, result) ==
    Append(ev, [kind |-> kind, id |-> obj.id, result |-> result])

\* ---------------------------------------------------------------------
\* StackEngine
\* ---------------------------------------------------------------------
BottomIndex(s) == 1

\* the index list.pop() removes and peek reads
TopIndex(s) == Len(s)

Push(obj) ==
    /\ nextId < MaxPush
    /\ obj.id = nextId + 1
    /\ nextId' = nextId + 1
    /\ stack' = Append(stack, obj)
    /\ last' = [NoCall EXCEPT !.op = "push"]
    /\ UNCHANGED <<resolved, valid, events>>
    /\ UNCHANGED gameVars
    /\ UNCHANGED triggerVars
    /\ UNCHANGED layerVars
    /\ UNCHANGED permVars
    /\ UNCHANGED combatVars
    /\ UNCHANGED effectVars
    /\ UNCHANGED parserVars
    /\ UNCHANGED managerVars

\* a spell cast with declared targets; its leaf carries the same targets
Cast ==
    \E shape \in CastShapes, optional \in BOOLEAN :
        Push(StackObject(nextId + 1, "Spell", "card", "P1", shape.targets,
                         <<Leaf(shape.action, 1, shape.targets)>>, optional))

Pop ==
    /\ IF stack = <<>>
       THEN /\ last' = [NoCall EXCEPT !.op = "pop", !.outcome = "empty"]
            /\ UNCHANGED stack
       ELSE /\ last' = [NoCall EXCEPT !.op = "pop",
                                      !.obj = stack[TopIndex(stack)]]
            /\ stack' = RemoveAt(stack, TopIndex(stack))
    /\ UNCHANGED <<resolved, nextId, valid, events>>
    /\ UNCHANGED gameVars
    /\ UNCHANGED triggerVars
    /\ UNCHANGED layerVars
    /\ UNCHANGED permVars
    /\ UNCHANGED combatVars
    /\ UNCHANGED effectVars
    /\ UNCHANGED parserVars
    /\ UNCHANGED managerVars

\* wants: what controller_wants_to_resolve() answers if it is called
ResolveTop ==
    /\ IF stack = <<>>
       THEN /\ last' = [NoCall EXCEPT !.op = "resolve_top",
                                      !.outcome = "empty"]
            /\ UNCHANGED <<stack, resolved, events>>
            /\ UNCHANGED gameVars
       ELSE \E wants \in BOOLEAN :
            LET obj == stack[TopIndex(stack)]
                legal == LegalTargets(obj.targets)
                after == [obj EXCEPT !.targets = legal]
                call == [NoCall EXCEPT !.op = "resolve_top"]
            IN  /\ stack' = RemoveAt(stack, TopIndex(stack))
                /\ IF ~has_legal_targets(obj)
                   THEN /\ events' = Log(events, EventOf("fizzle"), obj, "none")
                        /\ resolved' = MarkResolved(resolved, obj.id)
                        /\ last' = [call EXCEPT !.obj = obj,
                                                !.outcome = "fizzle"]
                        /\ UNCHANGED gameVars
                   ELSE IF Declines(obj, wants)
                   THEN /\ events' = Log(events, EventOf("declined"), obj,
                                         "none")
                        /\ resolved' = MarkResolved(resolved, obj.id)
                        /\ last' = [call EXCEPT !.obj = obj,
                                                !.outcome = "declined",
                                                !.asked = Asked(obj, wants)]
                        /\ UNCHANGED gameVars
                   ELSE IF obj.targets # <<>> /\ legal = <<>>
                   \* StackObject.resolve, its own fizzle return
                   THEN /\ events' = Log(events, EventOf("resolved"), obj,
                                         "fizzle")
                        /\ resolved' = MarkResolved(resolved, obj.id)
                        /\ last' = [call EXCEPT !.obj = obj,
                                                !.outcome = "fizzle",
                                                !.asked = Asked(obj, wants)]
                        /\ UNCHANGED gameVars
                   \* StackObject.resolve through the effect engine
                   ELSE /\ SetGS(execute(GS, obj.effect_ir,
                                         EffectContext(obj, legal)).g)
                        /\ events' = Log(events, EventOf("resolved"), after,
                                         "resolved")
                        /\ resolved' = MarkResolved(resolved, obj.id)
                        /\ last' = [call EXCEPT !.obj = after,
                                                !.outcome = "resolved",
                                                !.asked = Asked(obj, wants),
                                                !.engine = TRUE]
    /\ UNCHANGED <<nextId, valid>>
    /\ UNCHANGED triggerVars
    /\ UNCHANGED layerVars
    /\ UNCHANGED permVars
    /\ UNCHANGED combatVars
    /\ UNCHANGED effectVars
    /\ UNCHANGED parserVars
    /\ UNCHANGED managerVars

\* the environment: a target becomes illegal, or legal again
SetValid ==
    \E t \in Targetable :
        /\ valid' = [valid EXCEPT ![t] = ~@]
        /\ last' = [NoCall EXCEPT !.op = "set_valid"]
        /\ UNCHANGED <<stack, resolved, nextId, events>>
        /\ UNCHANGED gameVars
        /\ UNCHANGED triggerVars
        /\ UNCHANGED layerVars
        /\ UNCHANGED permVars
        /\ UNCHANGED combatVars
        /\ UNCHANGED effectVars
    /\ UNCHANGED parserVars
    /\ UNCHANGED managerVars

\* a spell without targets, cast while triggers are queued
CastPlain ==
    Push(StackObject(nextId + 1, "Spell", "card", "P1", <<>>,
                     <<Leaf("gain_life", 1, <<>>)>>, FALSE))

\* ---------------------------------------------------------------------
\* TriggerEngine and GameState.move_card
\* ---------------------------------------------------------------------
Register ==
    \E source \in Perms :
        /\ Len(registered) < MaxRegistered
        /\ registered' = RegisterOp(registered, source)
        /\ last' = [NoCall EXCEPT !.op = "register"]
        /\ UNCHANGED <<life, damage, zones, cardZone, controller>>
        /\ UNCHANGED stackVars
        /\ UNCHANGED triggerVars
        /\ UNCHANGED layerVars
        /\ UNCHANGED permVars
        /\ UNCHANGED combatVars
        /\ UNCHANGED effectVars
    /\ UNCHANGED parserVars
    /\ UNCHANGED managerVars

FireNow ==
    \E source \in Perms :
        /\ Len(pending) < MaxPending
        /\ pending' = Append(pending,
                             [effect_ir |-> <<Leaf("gain_life", 1, <<>>)>>,
                              source |-> source])
        /\ fired' = TRUE
        /\ last' = [NoCall EXCEPT !.op = "fire_now"]
        /\ UNCHANGED stackVars
        /\ UNCHANGED gameVars
        /\ UNCHANGED layerVars
        /\ UNCHANGED permVars
        /\ UNCHANGED combatVars
        /\ UNCHANGED effectVars
    /\ UNCHANGED parserVars
    /\ UNCHANGED managerVars

MoveCard ==
    \E card \in Perms, player \in Players, new_zone \in ZoneNames \cup {"stack"} :
        /\ IF new_zone \notin ZoneNames
           THEN /\ last' = [NoCall EXCEPT !.op = "move_card",
                                          !.error = "ValueError"]
                /\ UNCHANGED gameVars
           ELSE /\ (new_zone = "battlefield" /\ EtbText[card])
                       => Len(registered) < MaxRegistered
                /\ SetGS(move_card(GS, card, player, new_zone))
                /\ last' = [NoCall EXCEPT !.op = "move_card"]
        /\ UNCHANGED stackVars
        /\ UNCHANGED triggerVars
        /\ UNCHANGED layerVars
        /\ UNCHANGED permVars
        /\ UNCHANGED combatVars
        /\ UNCHANGED effectVars
    /\ UNCHANGED parserVars
    /\ UNCHANGED managerVars

\* the TriggeredAbility check_and_push builds from a pending pair
TriggeredAbility(id, p) ==
    StackObject(id, "TriggeredAbility", p.source, controller[p.source], <<>>,
                p.effect_ir, FALSE)

\* the while loop of check_and_push when every add_trigger call returns
RECURSIVE PushAll(_, _, _)
PushAll(s, pend, id) ==
    IF pend = <<>> THEN s
    ELSE PushAll(Append(s, TriggeredAbility(id + 1, Head(pend))),
                 Tail(pend), id + 1)

QueuedAndRegistered ==
    pending \o [i \in 1..Len(registered) |->
                   [effect_ir |-> <<Leaf("gain_life", 1, <<>>)>>,
                    source |-> registered[i]]]

\* the list check_and_push consumes: self.pending
Queued == pending

\* check_and_push(game_state, stack) with the StackEngine as stack
CheckAndPush ==
    /\ IF Queued = <<>>
       THEN /\ last' = [NoCall EXCEPT !.op = "check_and_push"]
            /\ UNCHANGED <<pending, stack, nextId>>
       ELSE IF "add_trigger" \in StackEngineMethods
       THEN /\ stack' = PushAll(stack, Queued, nextId)
            /\ nextId' = nextId + Len(Queued)
            /\ pending' = <<>>
            /\ last' = [NoCall EXCEPT !.op = "check_and_push"]
       \* pending.pop(0), then stack.add_trigger raises
       ELSE /\ pending' = Tail(Queued)
            /\ last' = [NoCall EXCEPT !.op = "check_and_push",
                                      !.error = "AttributeError"]
            /\ UNCHANGED <<stack, nextId>>
    /\ UNCHANGED <<resolved, valid, events, fired>>
    /\ UNCHANGED gameVars
    /\ UNCHANGED layerVars
    /\ UNCHANGED permVars
    /\ UNCHANGED combatVars
    /\ UNCHANGED effectVars
    /\ UNCHANGED parserVars
    /\ UNCHANGED managerVars

\* ---------------------------------------------------------------------
\* StaticEffectDescriptor
\* ---------------------------------------------------------------------
IntLayer(i) == [t |-> "int", i |-> i]

StrLayer(s) == [t |-> "str", s |-> s]

\* the descriptor has no layer, or layer=None
NoLayer == [t |-> "none"]

\* the layer values descriptors are created with
LayerInputs ==
    {IntLayer(i) : i \in 0..8}
        \cup {StrLayer(s) : s \in {"7a", "7b", "7c", "7d", "7e", "Layer 7c"}}
        \cup {NoLayer}

\* the creation times descriptors carry
Timestamps == {1, 2}

\* what the descriptors that are created do
EffectShapes ==
    {[target_class |-> "permanent", power_boost |-> 1, toughness_boost |-> 1,
      granted_abilities |-> <<"flying">>,
      rules_overwrites |-> {"can't gain life"},
      restrictions |-> {"must attack"}],
     [target_class |-> "creature", power_boost |-> -1, toughness_boost |-> -1,
      granted_abilities |-> <<>>, rules_overwrites |-> {}, restrictions |-> {}]}

\* permanent.types
Types == [c \in Perms |-> IF c = "c1" THEN {"Creature"} ELSE {"Artifact"}]

StaticEffectDescriptor(shape, layer, timestamp) ==
    [layer |-> layer, timestamp |-> timestamp,
     target_class |-> shape.target_class,
     power_boost |-> shape.power_boost,
     toughness_boost |-> shape.toughness_boost,
     granted_abilities |-> shape.granted_abilities,
     rules_overwrites |-> shape.rules_overwrites,
     restrictions |-> shape.restrictions]

\* the permanents' derived characteristics as a value
PS ==
    [power |-> power, toughness |-> toughness, abilities |-> abilities,
     life_gain_prevention |-> life_gain_prevention,
     must_attack |-> must_attack]

SetPS(q) ==
    /\ power' = q.power
    /\ toughness' = q.toughness
    /\ abilities' = q.abilities
    /\ life_gain_prevention' = q.life_gain_prevention
    /\ must_attack' = q.must_attack

\* game_state.battlefield: the permanents on the battlefield
Battlefield == zones["P1"]["battlefield"] \o zones["P2"]["battlefield"]

matches_target(effect, permanent) ==
    \/ effect.target_class = "permanent"
    \/ effect.target_class = "creature" /\ "Creature" \in Types[permanent]

RECURSIVE GrantAll(_, _)
GrantAll(have, granted) ==
    IF granted = <<>> THEN have
    ELSE GrantAll(IF InSeq(have, Head(granted)) THEN have
                  ELSE Append(have, Head(granted)),
                  Tail(granted))

\* a variant that leaves the toughness as it was
BoostPowerOnly(q, effect, permanent) ==
    [q EXCEPT
        !.abilities = [@ EXCEPT ![permanent] =
                          GrantAll(@, effect.granted_abilities)],
        !.power = [@ EXCEPT ![permanent] = @ + effect.power_boost],
        !.life_gain_prevention =
            IF "can't gain life" \in effect.rules_overwrites
            THEN @ \cup {permanent} ELSE @,
        !.must_attack =
            IF "must attack" \in effect.restrictions
            THEN @ \cup {permanent} ELSE @]

apply_to_permanent(q, effect, permanent) ==
    [q EXCEPT
        !.abilities = [@ EXCEPT ![permanent] =
                          GrantAll(@, effect.granted_abilities)],
        !.power = [@ EXCEPT ![permanent] = @ + effect.power_boost],
        !.toughness = [@ EXCEPT ![permanent] = @ + effect.toughness_boost],
        !.life_gain_prevention =
            IF "can't gain life" \in effect.rules_overwrites
            THEN @ \cup {permanent} ELSE @,
        !.must_attack =
            IF "must attack" \in effect.restrictions
            THEN @ \cup {permanent} ELSE @]

\* StaticEffectDescriptor.apply over the permanents of the battlefield
RECURSIVE apply(_, _, _)
apply(q, effect, permanents) ==
    IF permanents = <<>> THEN q
    ELSE apply(IF matches_target(effect, Head(permanents))
               THEN apply_to_permanent(q, effect, Head(permanents))
               ELSE q,
               effect, Tail(permanents))

\* ---------------------------------------------------------------------
\* LayerManager
\* ---------------------------------------------------------------------
SublayerNames == <<"7a", "7b", "7c", "7d">>

\* the range test that lets 7 through to layers[7]
BucketOfWideRange(layer) ==
    IF layer.t = "none" THEN <<"error", "missing layer">>
    ELSE IF layer.t = "int" /\ 1 <= layer.i /\ layer.i <= 7
    THEN <<"layers", layer.i>>
    ELSE IF layer.t = "str" /\ layer.s \in {"7a", "7b", "7c", "7d"}
    THEN <<"sublayers_7", layer.s>>
    ELSE <<"error", "invalid layer">>

\* the bucket register_effect files a layer value in: <<"layers", n>>,
\* <<"sublayers_7", name>>, or <<"error", message>>
BucketOf(layer) ==
    IF layer.t = "none" THEN <<"error", "missing layer">>
    ELSE IF layer.t = "int" /\ 1 <= layer.i /\ layer.i <= 6
    THEN <<"layers", layer.i>>
    ELSE IF layer.t = "str" /\ layer.s \in {"7a", "7b", "7c", "7d"}
    THEN <<"sublayers_7", layer.s>>
    ELSE IF layer.t = "int" /\ layer.i = 7
    THEN <<"sublayers_7", "7d">>
    ELSE <<"error", "invalid layer">>

RegisterEffect ==
    \E shape \in EffectShapes, layer \in LayerInputs, ts \in Timestamps :
        LET effect == StaticEffectDescriptor(shape, layer, ts)
            bucket == BucketOf(layer)
        IN  /\ effectCount < MaxEffects
            /\ effectCount' = effectCount + 1
            /\ IF bucket[1] = "layers"
               THEN /\ layers' = [layers EXCEPT ![bucket[2]] = Append(@, effect)]
                    /\ UNCHANGED sublayers_7
                    /\ last' = [NoCall EXCEPT !.op = "register_effect",
                                              !.layer = layer]
               ELSE IF bucket[1] = "sublayers_7"
               THEN /\ sublayers_7' =
                           [sublayers_7 EXCEPT ![bucket[2]] = Append(@, effect)]
                    /\ UNCHANGED layers
                    /\ last' = [NoCall EXCEPT !.op = "register_effect",
                                              !.layer = layer]
               ELSE /\ UNCHANGED <<layers, sublayers_7>>
                    /\ last' = [NoCall EXCEPT !.op = "register_effect",
                                              !.layer = layer,
                                              !.error = "ValueError"]
            /\ UNCHANGED <<applied, applyCount>>
            /\ UNCHANGED stackVars
            /\ UNCHANGED gameVars
            /\ UNCHANGED triggerVars
            /\ UNCHANGED permVars
            /\ UNCHANGED combatVars
            /\ UNCHANGED effectVars
    /\ UNCHANGED parserVars
    /\ UNCHANGED managerVars

\* insert e behind every element whose timestamp is not larger
RECURSIVE InsertByTimestamp(_, _)
InsertByTimestamp(s, e) ==
    IF s = <<>> THEN <<e>>
    ELSE IF s[Len(s)].timestamp <= e.timestamp THEN Append(s, e)
    ELSE Append(InsertByTimestamp(SubSeq(s, 1, Len(s) - 1), e), s[Len(s)])

RegistrationOrder(s) == s

\* sorted(effects, key=lambda e: e.timestamp): stable, ascending
RECURSIVE SortByTimestamp(_)
SortByTimestamp(s) ==
    IF s = <<>> THEN <<>>
    ELSE InsertByTimestamp(SortByTimestamp(SubSeq(s, 1, Len(s) - 1)), s[Len(s)])

\* the order in which apply_layers visits the descriptors
RECURSIVE LayerOrder(_)
LayerOrder(n) ==
    IF n = 0 THEN <<>> ELSE LayerOrder(n - 1) \o SortByTimestamp(layers[n])

RECURSIVE SublayerOrder(_)
SublayerOrder(n) ==
    IF n = 0 THEN <<>>
    ELSE SublayerOrder(n - 1) \o SortByTimestamp(sublayers_7[SublayerNames[n]])

ApplyOrder == LayerOrder(6) \o SublayerOrder(4)

RECURSIVE ApplyEach(_, _, _)
ApplyEach(q, effects, permanents) ==
    IF effects = <<>> THEN q
    ELSE ApplyEach(apply(q, Head(effects), permanents), Tail(effects),
                   permanents)

ApplyLayers ==
    /\ applyCount < MaxApply
    /\ applyCount' = applyCount + 1
    /\ applied' = ApplyOrder
    /\ SetPS(ApplyEach(PS, ApplyOrder, Battlefield))
    /\ last' = [NoCall EXCEPT !.op = "apply_layers"]
    /\ UNCHANGED <<layers, sublayers_7, effectCount>>
    /\ UNCHANGED stackVars
    /\ UNCHANGED gameVars
    /\ UNCHANGED triggerVars
    /\ UNCHANGED combatVars
    /\ UNCHANGED effectVars
    /\ UNCHANGED parserVars
    /\ UNCHANGED managerVars

\* ---------------------------------------------------------------------
\* CombatEngine
\* ---------------------------------------------------------------------
\* the cards of the combat scenarios: a* belong to P1, b* and pw to P2
CombatCards ==
    {"a1", "a2", "a3", "a4", "h1", "art", "b1", "b2", "b3", "pw"}

\* GameState.phases
phases ==
    <<"Untap", "Upkeep", "Draw", "Precombat Main", "Beginning of Combat",
      "Declare Attackers", "Declare Blockers", "Combat Damage",
      "End of Combat", "Postcombat Main", "End Step", "Cleanup">>

\* GameState.players
players == <<"P1", "P2">>

current_player == players[turn_index + 1]

current_phase == phases[phase_index + 1]

\* card.type_line
type_line ==
    [c \in CombatCards |->
        IF c = "art" THEN "Artifact"
        ELSE IF c = "pw" THEN "Legendary Planeswalker"
        ELSE IF c = "b3" THEN "Artifact Creature - Golem"
        ELSE "Creature - Dummy"]

\* "creature" in type_line.lower()
IsCreature(c) ==
    type_line[c] \in {"Creature - Dummy", "Artifact Creature - Golem"}

\* the cards whose summoning_sick, haste, deathtouch, trample flag is set
summoning_sick == {"a3", "a4"}

haste == {"a3"}

deathtouch == {"a1", "b2"}

trample == {"a3"}

\* hasattr(defender, "life"): players have a life total, cards have none
HasLife(defender) == defender \in Players

\* game_state.combat before the first declaration creates it
NoCombat == [has |-> FALSE]

\* dictionaries keep their keys in insertion order
HasKey(d, k) == \E i \in 1..Len(d) : d[i].key = k

Get(d, k) == d[CHOOSE i \in 1..Len(d) : d[i].key = k].value

SetItem(d, k, v) ==
    IF HasKey(d, k)
    THEN [i \in 1..Len(d) |->
             IF d[i].key = k THEN [key |-> k, value |-> v] ELSE d[i]]
    ELSE Append(d, [key |-> k, value |-> v])

\* d.setdefault(k, []).append(v)
AppendItem(d, k, v) ==
    IF HasKey(d, k)
    THEN [i \in 1..Len(d) |->
             IF d[i].key = k
             THEN [key |-> k, value |-> Append(d[i].value, v)] ELSE d[i]]
    ELSE Append(d, [key |-> k, value |-> <<v>>])

\* the (creature, defender) pairs a caller passes to declare_attackers
AttackEntries ==
    {<<"a1", "P2">>, <<"a3", "P2">>, <<"a1", "pw">>, <<"a2", "P2">>,
     <<"a4", "P2">>, <<"h1", "P2">>, <<"art", "P2">>, <<"b1", "P2">>,
     <<"a1", "P1">>}

\* the lists passed to declare_attackers: the empty list, every single
\* pair, every two of the pairs that can attack, are tapped or name an
\* illegal defender, and the lists of three that name a1, a2 and a3 once
AttackerAssignments ==
    UNION {[1..n -> AttackEntries] : n \in 0..1}
    \cup [1..2 -> {<<"a1", "P2">>, <<"a3", "P2">>, <<"a1", "pw">>,
                   <<"a2", "P2">>, <<"a1", "P1">>}]
    \cup {s \in [1..3 -> {<<"a1", "P2">>, <<"a2", "P2">>, <<"a3", "P2">>}] :
             \A i, j \in 1..3 : i # j => s[i] # s[j]}

\* the (blocker, attacker) pairs a caller passes to declare_blockers
BlockEntries ==
    {<<"b1", "a1">>, <<"b2", "a1">>, <<"b1", "a3">>, <<"b2", "a3">>,
     <<"b1", "a2">>, <<"b3", "a1">>, <<"pw", "a1">>, <<"a4", "a1">>,
     <<"h1", "a1">>}

\* the lists passed to declare_blockers: the empty list, every single
\* pair, every two pairs of b1 and b2 that share their attacker or their
\* blocker, and every pair of another card followed by (b1, a1)
BlockerAssignments ==
    UNION {[1..n -> BlockEntries] : n \in 0..1}
    \cup {s \in [1..2 -> BlockEntries] :
             /\ s[1] # s[2]
             /\ \/ /\ {s[1][1], s[2][1]} \subseteq {"b1", "b2"}
                   /\ s[1][1] = s[2][1] \/ s[1][2] = s[2][2]
                \/ /\ s[1][1] \notin {"b1", "b2"}
                   /\ s[2] = <<"b1", "a1">>}

legal_defender(defender, attacking_player) ==
    \/ defender \in Players /\ defender # attacking_player
    \/ defender \in CombatCards /\ controller[defender] \in Players

\* the combat state a declaration works on, as a value
CS ==
    [attackers |-> attackers, blockers |-> blockers, combat |-> combat,
     tapped |-> tapped, status |-> status, log |-> <<>>]

SetCS(c) ==
    /\ attackers' = c.attackers
    /\ blockers' = c.blockers
    /\ combat' = c.combat
    /\ tapped' = c.tapped
    /\ status' = c.status
    /\ log' = c.log

Skip(c, subject, text, object) ==
    [c EXCEPT !.log = Append(@, Message(subject, text, object, 0))]

\* one pass of the loop of declare_attackers
AttackEntry(c, creature, defender, attacking_player) ==
    IF cardZone[creature] # "battlefield"
    THEN Skip(c, creature, "is not on the battlefield", "")
    ELSE IF controller[creature] # attacking_player
    THEN Skip(c, creature, "is not controlled by", attacking_player)
    ELSE IF ~IsCreature(creature)
    THEN Skip(c, creature, "is not a creature", "")
    ELSE IF c.tapped[creature]
    THEN Skip(c, creature, "is tapped and can't attack", "")
    ELSE IF creature \in summoning_sick /\ creature \notin haste
    THEN Skip(c, creature, "has summoning sickness", "")
    ELSE IF ~legal_defender(defender, attacking_player)
    THEN Skip(c, defender, "is not a legal defender", "")
    ELSE [c EXCEPT
            !.attackers = SetItem(@, creature, defender),
            !.combat = [@ EXCEPT
                          !.attackers = SetItem(@, creature, defender)],
            !.tapped = [@ EXCEPT ![creature] = TRUE],
            !.status = [@ EXCEPT ![creature] = "attacking"],
            !.log = Append(@, Message(creature, "attacks", defender, 0))]

\* a variant of the loop that stops at the first entry it skips
RECURSIVE AttackUntilSkip(_, _, _)
AttackUntilSkip(c, entries, attacking_player) ==
    IF entries = <<>> THEN c
    ELSE LET n == AttackEntry(c, Head(entries)[1], Head(entries)[2],
                              attacking_player)
         IN  IF n.attackers = c.attackers THEN n
             ELSE AttackUntilSkip(n, Tail(entries), attacking_player)

\* the loop of declare_attackers
RECURSIVE AttackEach(_, _, _)
AttackEach(c, entries, attacking_player) ==
    IF entries = <<>> THEN c
    ELSE AttackEach(AttackEntry(c, Head(entries)[1], Head(entries)[2],
                                attacking_player),
                    Tail(entries), attacking_player)

\* the calls that get past their early returns are counted, and there
\* are at most MaxCombatCalls of them
Counted ==
    combatCalls < MaxCombatCalls /\ combatCalls' = combatCalls + 1

\* the creatures a declaration has recorded, by its log
Recorded(messages, text) ==
    {messages[i].subject :
        i \in {j \in 1..Len(messages) : messages[j].text = text}}

\* the creatures a dictionary of declarations has as keys
Keys(d) == {d[i].key : i \in 1..Len(d)}

DeclareAttackers ==
    /\ current_phase = "Declare Attackers"
    /\ Counted
    /\ \E attacker_assignments \in AttackerAssignments :
           LET created == IF combat.has THEN combat
                          ELSE [has |-> TRUE, attackers |-> <<>>,
                                blockers |-> <<>>]
               c == AttackEach([CS EXCEPT !.combat = created],
                               attacker_assignments, current_player)
           IN  /\ SetCS(c)
               /\ assignments' = attacker_assignments
               /\ declared' = IF declared = "none"
                                  /\ Recorded(c.log, "attacks") # {}
                               THEN "attackers" ELSE declared
    /\ last' = [NoCall EXCEPT !.op = "declare_attackers"]
    /\ UNCHANGED <<phase_index, turn_index, loyalty, damageAssigned>>
    /\ UNCHANGED stackVars
    /\ UNCHANGED gameVars
    /\ UNCHANGED triggerVars
    /\ UNCHANGED layerVars
    /\ UNCHANGED permVars
    /\ UNCHANGED effectVars
    /\ UNCHANGED parserVars
    /\ UNCHANGED managerVars

\* the test of declare_blockers that the blocked creature is attacking
AnyCreature(att, attacker) == TRUE

IsAttacking(att, attacker) == HasKey(att, attacker)

\* one pass of the loop of declare_blockers
BlockEntry(c, blocker, attacker, defending_player) ==
    IF cardZone[blocker] # "battlefield"
    THEN Skip(c, blocker, "is not on the battlefield", "")
    ELSE IF controller[blocker] # defending_player
    THEN Skip(c, blocker, "is not controlled by", defending_player)
    ELSE IF ~IsCreature(blocker)
    THEN Skip(c, blocker, "is not a creature", "")
    ELSE IF c.tapped[blocker]
    THEN Skip(c, blocker, "is tapped and can't block", "")
    ELSE IF ~IsAttacking(c.attackers, attacker)
    THEN Skip(c, attacker, "is not attacking", defending_player)
    ELSE [c EXCEPT
            !.blockers = AppendItem(@, blocker, attacker),
            !.combat = [@ EXCEPT
                          !.blockers = AppendItem(@, blocker, attacker)],
            !.status = [@ EXCEPT ![blocker] = "blocking"],
            !.log = Append(@, Message(blocker, "blocks", attacker, 0))]

\* the loop of declare_blockers: a variant that ends at the first pair it
\* skips
RECURSIVE BlockUntilSkip(_, _, _)
BlockUntilSkip(c, entries, defending_player) ==
    IF entries = <<>> THEN c
    ELSE LET e == BlockEntry(c, Head(entries)[1], Head(entries)[2],
                             defending_player)
         IN  IF e.blockers = c.blockers THEN e
             ELSE BlockUntilSkip(e, Tail(entries), defending_player)

\* the loop of declare_blockers
RECURSIVE BlockEach(_, _, _)
BlockEach(c, entries, defending_player) ==
    IF entries = <<>> THEN c
    ELSE BlockEach(BlockEntry(c, Head(entries)[1], Head(entries)[2],
                              defending_player),
                   Tail(entries), defending_player)

\* the player who is not the active player
defending_player == players[((turn_index + 1) % Len(players)) + 1]

DeclareBlockers ==
    /\ current_phase = "Declare Blockers"
    /\ combat.has /\ combat.attackers # <<>>
    /\ Counted
    /\ \E blocker_assignments \in BlockerAssignments :
           LET c == BlockEach(CS, blocker_assignments, defending_player)
           IN  /\ SetCS(c)
               /\ assignments' = blocker_assignments
               /\ declared' = IF Recorded(c.log, "blocks") # {}
                               THEN "blockers" ELSE declared
    /\ last' = [NoCall EXCEPT !.op = "declare_blockers"]
    /\ UNCHANGED <<phase_index, turn_index, loyalty, damageAssigned>>
    /\ UNCHANGED stackVars
    /\ UNCHANGED gameVars
    /\ UNCHANGED triggerVars
    /\ UNCHANGED layerVars
    /\ UNCHANGED permVars
    /\ UNCHANGED effectVars
    /\ UNCHANGED parserVars
    /\ UNCHANGED managerVars

\* [b for b, att_list in self.blockers.items() if attacker in att_list]
RECURSIVE BlockersOf(_, _)
BlockersOf(blk, attacker) ==
    IF blk = <<>> THEN <<>>
    ELSE (IF InSeq(Head(blk).value, attacker) THEN <<Head(blk).key>>
          ELSE <<>>)
         \o BlockersOf(Tail(blk), attacker)

\* a variant that always takes its first argument
FirstOf(a, b) == a

Min(a, b) == IF a <= b THEN a ELSE b

\* what assign_combat_damage changes, as a value
DS ==
    [life |-> life, damage |-> damage, cardZone |-> cardZone, log |-> <<>>]

\* marking damage on a creature: a variant that also puts a creature with
\* lethal damage into the graveyard
MarksAndDestroys(d, creature, dmg) ==
    [d EXCEPT !.damage[creature] = @ + dmg,
              !.cardZone[creature] =
                  IF d.damage[creature] + dmg >= toughness[creature]
                  THEN "graveyard" ELSE @]

\* creature.damage = getattr(creature, "damage", 0) + dmg
Marks(d, creature, dmg) == [d EXCEPT !.damage[creature] = @ + dmg]

Deals(d, source, text, amount, object) ==
    [d EXCEPT !.log = Append(@, Message(source, text, object, amount))]

\* the test of the attacker's deathtouch: a variant that never finds it
NeverDeathtouch(attacker) == FALSE

HasDeathtouch(attacker) == attacker \in deathtouch

\* the loop over the blockers of one attacker: the damage it assigns to
\* them, and the power that remains
RECURSIVE DamageBlockers(_, _, _, _)
DamageBlockers(d, attacker, bl, remaining) ==
    IF bl = <<>> THEN [d |-> d, remaining |-> remaining]
    ELSE LET blocker == Head(bl)
             dmg == IF HasDeathtouch(attacker) THEN 1
                    ELSE Min(remaining,
                             toughness[blocker] - d.damage[blocker])
             e == Deals(Marks(d, blocker, dmg),
                        attacker, "deals damage to", dmg, blocker)
         IN  IF remaining - dmg <= 0
             THEN [d |-> e, remaining |-> remaining - dmg]
             ELSE DamageBlockers(e, attacker, Tail(bl), remaining - dmg)

\* the damage a blocker deals to the attacker: a variant without deathtouch
PowerOfBlocker(blocker) == power[blocker]

DamageOfBlocker(blocker) ==
    IF blocker \in deathtouch THEN 1 ELSE power[blocker]

\* the loop of the blockers dealing their damage to the attacker
RECURSIVE DamageAttacker(_, _, _)
DamageAttacker(d, attacker, bl) ==
    IF bl = <<>> THEN d
    ELSE DamageAttacker(
             Deals(Marks(d, attacker, DamageOfBlocker(Head(bl))),
                   Head(bl), "deals damage to", DamageOfBlocker(Head(bl)),
                   attacker),
             attacker, Tail(bl))

\* the test that lets leftover power through to the defender
TramplesAlways(attacker) == TRUE

Tramples(attacker) == attacker \in trample

\* one pass of the loop of assign_combat_damage over the attackers
DamageOf(d, attacker, defender) ==
    LET bl == BlockersOf(blockers, attacker) IN
    IF bl = <<>>
    THEN Deals(IF HasLife(defender)
               THEN [d EXCEPT !.life[defender] = @ - power[attacker]]
               ELSE d,
               attacker, "deals damage to", power[attacker], defender)
    ELSE LET r == DamageBlockers(d, attacker, bl, power[attacker])
             t == IF r.remaining > 0 /\ Tramples(attacker)
                  THEN Deals(IF HasLife(defender)
                             THEN [r.d EXCEPT
                                       !.life[defender] = @ - r.remaining]
                             ELSE r.d,
                             attacker, "deals trample damage to",
                             r.remaining, defender)
                  ELSE r.d
         IN  DamageAttacker(t, attacker, bl)

RECURSIVE DamageEach(_, _)
DamageEach(d, att) ==
    IF att = <<>> THEN d
    ELSE DamageEach(DamageOf(d, Head(att).key, Head(att).value), Tail(att))

AssignCombatDamage ==
    /\ combat.has
    /\ Counted
    /\ LET d == DamageEach(DS, attackers)
       IN  /\ life' = d.life
           /\ damage' = d.damage
           /\ cardZone' = d.cardZone
           /\ log' = d.log
    /\ damageAssigned' = (damageAssigned \/ attackers # <<>>)
    /\ assignments' = <<>>
    /\ last' = [NoCall EXCEPT !.op = "assign_combat_damage"]
    /\ UNCHANGED <<phase_index, turn_index, attackers, blockers, combat,
                   tapped, status, loyalty, declared>>
    /\ UNCHANGED <<zones, controller, registered>>
    /\ UNCHANGED stackVars
    /\ UNCHANGED triggerVars
    /\ UNCHANGED layerVars
    /\ UNCHANGED permVars
    /\ UNCHANGED effectVars
    /\ UNCHANGED parserVars
    /\ UNCHANGED managerVars

\* GameState.advance_phase; a combat begins with "Beginning of Combat"
AdvancePhase ==
    /\ phase_index' = (phase_index + 1) % Len(phases)
    /\ IF phases[phase_index' + 1] = "Beginning of Combat"
       THEN declared' = "none" /\ damageAssigned' = FALSE
       ELSE UNCHANGED <<declared, damageAssigned>>
    /\ log' = <<>>
    /\ assignments' = <<>>
    /\ last' = [NoCall EXCEPT !.op = "advance_phase"]
    /\ UNCHANGED <<turn_index, attackers, blockers, combat, tapped, status,
                   loyalty, combatCalls>>
    /\ UNCHANGED stackVars
    /\ UNCHANGED gameVars
    /\ UNCHANGED triggerVars
    /\ UNCHANGED layerVars
    /\ UNCHANGED permVars
    /\ UNCHANGED effectVars
    /\ UNCHANGED parserVars
    /\ UNCHANGED managerVars

\* GameState.next_turn
NextTurn ==
    /\ turn_index' = (turn_index + 1) % Len(players)
    /\ phase_index' = 0
    /\ declared' = "none"
    /\ damageAssigned' = FALSE
    /\ log' = <<>>
    /\ assignments' = <<>>
    /\ last' = [NoCall EXCEPT !.op = "next_turn"]
    /\ UNCHANGED <<attackers, blockers, combat, tapped, status, loyalty,
                   combatCalls>>
    /\ UNCHANGED stackVars
    /\ UNCHANGED gameVars
    /\ UNCHANGED triggerVars
    /\ UNCHANGED layerVars
    /\ UNCHANGED permVars
    /\ UNCHANGED effectVars
    /\ UNCHANGED parserVars
    /\ UNCHANGED managerVars

\* ---------------------------------------------------------------------
\* State-based actions
\* ---------------------------------------------------------------------
\* getattr(obj, "type_line", ""): the cards of the combat scenarios carry
\* a type line, players and the other permanents carry none
TypeLineOf(obj) == IF obj \in DOMAIN type_line THEN type_line[obj] ELSE ""

\* type_line.lower().startswith("creature")
StartsWithCreature(obj) == TypeLineOf(obj) \in {"Creature - Dummy"}

\* the conditions of the two creature rules
_creature_with_zero_toughness(g, obj) ==
    StartsWithCreature(obj) /\ toughness[obj] <= 0

_creature_with_lethal_damage(g, obj) ==
    StartsWithCreature(obj) /\ g.damage[obj] >= toughness[obj]

\* the loop of one creature rule over list(battlefield) of one player;
\* _destroy_creature moves the creature to its controller's graveyard
RECURSIVE DestroyEach(_, _, _, _)
DestroyEach(g, permanents, player, rule) ==
    IF permanents = <<>> THEN g
    ELSE LET permanent == Head(permanents)
             condition == IF rule = 1
                          THEN _creature_with_zero_toughness(g, permanent)
                          ELSE _creature_with_lethal_damage(g, permanent)
         IN  DestroyEach(IF condition
                         THEN move_card(g, permanent, player, "graveyard")
                         ELSE g,
                         Tail(permanents), player, rule)

\* GameState.check_state_based_actions: the rules in order, and for each
\* rule the players in order; the third rule makes a player with life 0 or
\* less lose, which sets the life to 0
check_state_based_actions(g) ==
    LET rule(h, r) ==
            LET first == DestroyEach(h, h.zones[players[1]]["battlefield"],
                                     players[1], r)
            IN  DestroyEach(first, first.zones[players[2]]["battlefield"],
                            players[2], r)
        destroyed == rule(rule(g, 1), 2)
    IN  [destroyed EXCEPT
            !.life = [p \in Players |-> IF @[p] <= 0 THEN 0 ELSE @[p]]]

\* game_state.check_state_based_actions() between two combat calls
CheckStateBasedActions ==
    /\ Counted
    /\ SetGS(check_state_based_actions(GS))
    /\ last' = [NoCall EXCEPT !.op = "check_state_based_actions"]
    /\ UNCHANGED <<phase_index, turn_index, attackers, blockers, combat,
                   tapped, status, loyalty, log, assignments, declared,
                   damageAssigned>>
    /\ UNCHANGED stackVars
    /\ UNCHANGED triggerVars
    /\ UNCHANGED layerVars
    /\ UNCHANGED permVars
    /\ UNCHANGED effectVars
    /\ UNCHANGED parserVars
    /\ UNCHANGED managerVars

\* ---------------------------------------------------------------------
\* Player
\* ---------------------------------------------------------------------
\* Player.draw(count)
Draw ==
    \E player \in Players, count \in 1..2 :
        /\ SetGS(draw(GS, player, count))
        /\ last' = [NoCall EXCEPT !.op = "draw"]
        /\ UNCHANGED stackVars
        /\ UNCHANGED triggerVars
        /\ UNCHANGED layerVars
        /\ UNCHANGED permVars
        /\ UNCHANGED combatVars
        /\ UNCHANGED effectVars
        /\ UNCHANGED parserVars
        /\ UNCHANGED managerVars

\* Player.play_land(card, game_state)
PlayLand ==
    \E player \in Players, card \in Perms :
        /\ IF lands_played_this_turn[player] >= 1
           THEN /\ last' = [NoCall EXCEPT !.op = "play_land",
                                          !.outcome = "already played"]
                /\ UNCHANGED gameVars
                /\ UNCHANGED lands_played_this_turn
           ELSE IF ~InSeq(zones[player]["hand"], card)
           THEN /\ last' = [NoCall EXCEPT !.op = "play_land",
                                          !.outcome = "not in hand"]
                /\ UNCHANGED gameVars
                /\ UNCHANGED lands_played_this_turn
           ELSE /\ EtbText[card] => Len(registered) < MaxRegistered
                /\ SetGS(move_card(
                       [GS EXCEPT !.zones[player]["hand"] =
                                      RemoveFirst(@, card)],
                       card, player, "battlefield"))
                /\ lands_played_this_turn' =
                       [lands_played_this_turn EXCEPT ![player] = @ + 1]
                /\ last' = [NoCall EXCEPT !.op = "play_land",
                                          !.outcome = "played"]
        /\ UNCHANGED <<current_index, turn_player_index, passed, active_index,
                       headless_mode, pc, turns>>
        /\ UNCHANGED stackVars
        /\ UNCHANGED triggerVars
        /\ UNCHANGED layerVars
        /\ UNCHANGED permVars
        /\ UNCHANGED combatVars
        /\ UNCHANGED effectVars
        /\ UNCHANGED parserVars

\* ---------------------------------------------------------------------
\* PriorityManager and GameManager
\* ---------------------------------------------------------------------
\* the priority manager as a value
PM == [passed |-> passed, active_index |-> active_index]

SetPM(pm) ==
    /\ passed' = pm.passed
    /\ active_index' = pm.active_index

\* PriorityManager.reset
reset(pm) == [passed |-> <<FALSE, FALSE>>, active_index |-> 0]

\* a variant that answers True as soon as the active player has passed
PassAlone(pm) == [pm |-> reset(pm), result |-> TRUE]

\* PriorityManager.pass_priority: the manager it leaves and what it returns
pass_priority(pm) ==
    LET marked == [pm.passed EXCEPT ![pm.active_index + 1] = TRUE]
    IN  IF \A i \in 1..2 : marked[i]
        THEN [pm |-> reset(pm), result |-> TRUE]
        ELSE [pm |-> [passed |-> marked,
                      active_index |-> 1 - pm.active_index],
              result |-> FALSE]

\* PriorityManager.both_players_passed
both_players_passed(pm) == \A i \in 1..2 : pm.passed[i]

\* what a resolution works on, as a value
WS == [g |-> GS, stack |-> stack, resolved |-> resolved, events |-> events]

SetWS(w) ==
    /\ SetGS(w.g)
    /\ stack' = w.stack
    /\ resolved' = w.resolved
    /\ events' = w.events

\* stack.resolve_top(game_state) on a stack that is not empty
resolve_top(w, wants) ==
    LET obj == w.stack[TopIndex(w.stack)]
        legal == LegalTargets(obj.targets)
        after == [obj EXCEPT !.targets = legal]
        popped == [w EXCEPT !.stack = RemoveAt(@, TopIndex(@)),
                            !.resolved = MarkResolved(@, obj.id)]
    IN  IF ~has_legal_targets(obj)
        THEN [popped EXCEPT
                 !.events = Log(@, EventOf("fizzle"), obj, "none")]
        ELSE IF Declines(obj, wants)
        THEN [popped EXCEPT
                 !.events = Log(@, EventOf("declined"), obj, "none")]
        ELSE IF obj.targets # <<>> /\ legal = <<>>
        THEN [popped EXCEPT
                 !.events = Log(@, EventOf("resolved"), obj, "fizzle")]
        ELSE [popped EXCEPT
                 !.g = execute(@, obj.effect_ir, EffectContext(obj, legal)).g,
                 !.events = Log(@, EventOf("resolved"), after, "resolved")]

\* self.players[self.turn_player_index]
TurnPlayer == players[turn_player_index + 1]

\* phase_manager.next_phase()
NextPhaseIndex == (current_index + 1) % Len(phases)

\* resolve_top, check_and_push with nothing pending, the state-based
\* actions: what execute_phase does once both players have passed with an
\* entry on the stack
Resolution(w, wants) ==
    LET after == resolve_top(w, wants)
    IN  [after EXCEPT !.g = check_state_based_actions(@)]

\* game_manager.execute_turn(game_state) is called
ExecuteTurn ==
    /\ pc = "idle"
    /\ turns < MaxTurns
    /\ pc' = "turn"
    /\ last' = [NoCall EXCEPT !.op = "execute_turn", !.outcome = "called"]
    /\ UNCHANGED <<current_index, turn_player_index, passed, active_index,
                   headless_mode, turns, lands_played_this_turn>>
    /\ UNCHANGED stackVars
    /\ UNCHANGED gameVars
    /\ UNCHANGED triggerVars
    /\ UNCHANGED layerVars
    /\ UNCHANGED permVars
    /\ UNCHANGED combatVars
    /\ UNCHANGED effectVars
    /\ UNCHANGED parserVars

\* execute_turn calls execute_phase: the turn-based action of the phase,
\* check_and_push, the state-based actions, and in headless mode one pass
\* of priority; in interactive mode the priority loop is entered. A
\* pending trigger makes check_and_push raise AttributeError, which ends
\* execute_turn.
ExecutePhase ==
    /\ pc = "turn"
    /\ phases[current_index + 1] # "Cleanup"
    /\ LET phase == phases[current_index + 1]
           drawn == IF phase = "Draw" THEN draw(GS, TurnPlayer, 1) ELSE GS
           checked == check_state_based_actions(drawn)
           pm == pass_priority(PM).pm
       IN  /\ tapped' = [c \in DOMAIN tapped |->
                            IF /\ phase = "Untap"
                               /\ InSeq(zones[TurnPlayer]["battlefield"], c)
                            THEN FALSE ELSE tapped[c]]
           /\ IF Queued # <<>>
              THEN /\ pending' = Tail(Queued)
                   /\ SetGS(drawn)
                   /\ pc' = "idle"
                   /\ last' = [NoCall EXCEPT !.op = "execute_phase",
                                             !.error = "AttributeError"]
                   /\ UNCHANGED <<stack, resolved, events, current_index,
                                  passed, active_index>>
              ELSE /\ UNCHANGED pending
                   /\ IF ~headless_mode
                      THEN /\ SetGS(checked)
                           /\ pc' = "loop"
                           /\ last' = [NoCall EXCEPT !.op = "execute_phase",
                                                     !.outcome = "loop"]
                           /\ UNCHANGED <<stack, resolved, events,
                                          current_index, passed, active_index>>
                      ELSE IF ~both_players_passed(pm)
                      THEN /\ SetGS(checked)
                           /\ SetPM(pm)
                           /\ pc' = "turn"
                           /\ last' = [NoCall EXCEPT !.op = "execute_phase",
                                                     !.outcome = "returned"]
                           /\ UNCHANGED <<stack, resolved, events,
                                          current_index>>
                      ELSE IF stack # <<>>
                      THEN \E wants \in BOOLEAN :
                           /\ SetWS(Resolution([WS EXCEPT !.g = checked],
                                               wants))
                           /\ SetPM(reset(pm))
                           /\ pc' = "turn"
                           /\ last' = [NoCall EXCEPT !.op = "execute_phase",
                                                     !.outcome = "resolved"]
                           /\ UNCHANGED current_index
                      ELSE /\ SetGS(checked)
                           /\ current_index' = NextPhaseIndex
                           /\ SetPM(reset(pm))
                           /\ pc' = "turn"
                           /\ last' = [NoCall EXCEPT !.op = "execute_phase",
                                                     !.outcome = "advanced"]
                           /\ UNCHANGED <<stack, resolved, events>>
    /\ UNCHANGED <<turn_player_index, headless_mode, turns,
                   lands_played_this_turn>>
    /\ UNCHANGED <<nextId, valid, fired>>
    /\ UNCHANGED <<phase_index, turn_index, attackers, blockers, combat,
                   status, loyalty, log, assignments, combatCalls, declared,
                   damageAssigned>>
    /\ UNCHANGED layerVars
    /\ UNCHANGED permVars
    /\ UNCHANGED effectVars
    /\ UNCHANGED parserVars

\* one round of the while True loop of execute_phase: the player with
\* priority passes; once both have passed the top of the stack is
\* resolved and the loop goes on, or with an empty stack the phase
\* advances and execute_phase returns
PassPriority ==
    /\ pc = "loop"
    /\ LET r == pass_priority(PM)
       IN  IF ~r.result
           THEN /\ SetPM(r.pm)
                /\ pc' = "loop"
                /\ last' = [NoCall EXCEPT !.op = "pass_priority",
                                          !.outcome = "passed"]
                /\ UNCHANGED <<stack, resolved, events, current_index>>
                /\ UNCHANGED gameVars
           ELSE IF stack # <<>>
           THEN \E wants \in BOOLEAN :
                /\ SetWS(Resolution(WS, wants))
                /\ SetPM(reset(r.pm))
                /\ pc' = "loop"
                /\ last' = [NoCall EXCEPT !.op = "pass_priority",
                                          !.outcome = "resolved"]
                /\ UNCHANGED current_index
           ELSE /\ current_index' = NextPhaseIndex
                /\ SetPM(reset(r.pm))
                /\ pc' = "turn"
                /\ last' = [NoCall EXCEPT !.op = "pass_priority",
                                          !.outcome = "advanced"]
                /\ UNCHANGED <<stack, resolved, events>>
                /\ UNCHANGED gameVars
    /\ UNCHANGED <<turn_player_index, headless_mode, turns,
                   lands_played_this_turn>>
    /\ UNCHANGED <<nextId, valid>>
    /\ UNCHANGED triggerVars
    /\ UNCHANGED layerVars
    /\ UNCHANGED permVars
    /\ UNCHANGED combatVars
    /\ UNCHANGED effectVars
    /\ UNCHANGED parserVars

\* execute_turn finds the phase manager at Cleanup: next_phase, next_turn
TurnReturns ==
    /\ pc = "turn"
    /\ phases[current_index + 1] = "Cleanup"
    /\ turn_player_index' = (turn_player_index + 1) % Len(players)
    /\ current_index' = 0
    /\ pc' = "idle"
    /\ turns' = turns + 1
    /\ last' = [NoCall EXCEPT !.op = "execute_turn", !.outcome = "returned"]
    /\ UNCHANGED <<passed, active_index, headless_mode,
                   lands_played_this_turn>>
    /\ UNCHANGED stackVars
    /\ UNCHANGED gameVars
    /\ UNCHANGED triggerVars
    /\ UNCHANGED layerVars
    /\ UNCHANGED permVars
    /\ UNCHANGED combatVars
    /\ UNCHANGED effectVars
    /\ UNCHANGED parserVars

\* a spell is put on the stack while no turn is being executed
CastBetweenTurns == pc = "idle" /\ Cast

\* ---------------------------------------------------------------------
\* Oracle text and the Tokenizer
\* ---------------------------------------------------------------------
\* An oracle text, word by word: its words in lower case, the positions
\* of the words written with a capital, and the mark that follows a word.
Texts ==
    <<
     \* At the beginning of your upkeep, draw a card.
     [words |->
         <<"at", "the", "beginning", "of", "your", "upkeep", "draw", "a",
           "card">>,
      capitals |-> {1}, punct |-> 6 :> "," @@ 9 :> "."],
     \* At the start of your upkeep, draw a card.
     [words |->
         <<"at", "the", "start", "of", "your", "upkeep", "draw", "a",
           "card">>,
      capitals |-> {1}, punct |-> 6 :> "," @@ 9 :> "."],
     \* Destroy target creature at end of combat.
     [words |->
         <<"destroy", "target", "creature", "at", "end", "of", "combat">>,
      capitals |-> {1}, punct |-> 7 :> "."],
     \* Whenever a creature dies, you gain 1 life.
     [words |->
         <<"whenever", "a", "creature", "dies", "you", "gain", "1", "life">>,
      capitals |-> {1}, punct |-> 4 :> "," @@ 8 :> "."],
     \* When this creature is exiled, draw a card.
     [words |->
         <<"when", "this", "creature", "is", "exiled", "draw", "a", "card">>,
      capitals |-> {1}, punct |-> 5 :> "," @@ 8 :> "."],
     \* When this enters the battlefield, create a token.
     [words |->
         <<"when", "this", "enters", "the", "battlefield", "create", "a",
           "token">>,
      capitals |-> {1}, punct |-> 5 :> "," @@ 8 :> "."],
     \* When this leaves the battlefield, you lose 2 life.
     [words |->
         <<"when", "this", "leaves", "the", "battlefield", "you", "lose",
           "2", "life">>,
      capitals |-> {1}, punct |-> 5 :> "," @@ 9 :> "."],
     \* Whenever you cast a spell, draw a card.
     [words |->
         <<"whenever", "you", "cast", "a", "spell", "draw", "a", "card">>,
      capitals |-> {1}, punct |-> 5 :> "," @@ 8 :> "."],
     \* Whenever a creature dies or is exiled, draw a card.
     [words |->
         <<"whenever", "a", "creature", "dies", "or", "is", "exiled",
           "draw", "a", "card">>,
      capitals |-> {1}, punct |-> 7 :> "," @@ 10 :> "."],
     \* Whenever you attack, if a creature dies, draw a card.
     [words |->
         <<"whenever", "you", "attack", "if", "a", "creature", "dies",
           "draw", "a", "card">>,
      capitals |-> {1}, punct |-> 3 :> "," @@ 7 :> "," @@ 10 :> "."],
     \* Draw a card for each creature you control.
     [words |->
         <<"draw", "a", "card", "for", "each", "creature", "you",
           "control">>,
      capitals |-> {1}, punct |-> 8 :> "."],
     \* Draw a card. Repeat this process.
     [words |->
         <<"draw", "a", "card", "repeat", "this", "process">>,
      capitals |-> {1, 4}, punct |-> 3 :> "." @@ 6 :> "."],
     \* If you do, then draw a card otherwise discard a card.
     [words |->
         <<"if", "you", "do", "then", "draw", "a", "card", "otherwise",
           "discard", "a", "card">>,
      capitals |-> {1}, punct |-> 3 :> "," @@ 11 :> "."],
     \* Draw a card and you gain 1 life.
     [words |->
         <<"draw", "a", "card", "and", "you", "gain", "1", "life">>,
      capitals |-> {1}, punct |-> 8 :> "."],
     \* Choose one - draw a card; destroy target creature.
     [words |->
         <<"choose", "one", "-", "draw", "a", "card", "destroy", "target",
           "creature">>,
      capitals |-> {1}, punct |-> 6 :> ";" @@ 9 :> "."],
     \* You gain 1 life then draw a card.
     [words |->
         <<"you", "gain", "1", "life", "then", "draw", "a", "card">>,
      capitals |-> {1}, punct |-> 8 :> "."],
     \* Fateseal 2.
     [words |->
         <<"fateseal", "2">>,
      capitals |-> {1}, punct |-> 2 :> "."],
     \* scry 2.
     [words |->
         <<"scry", "2">>,
      capitals |-> {}, punct |-> 2 :> "."],
     \* Flying, vigilance
     [words |->
         <<"flying", "vigilance">>,
      capitals |-> {1}, punct |-> 1 :> ","],
     \* Create a 1/1 white soldier creature token with flying.
     [words |->
         <<"create", "a", "1/1", "white", "soldier", "creature", "token",
           "with", "flying">>,
      capitals |-> {1}, punct |-> 9 :> "."],
     \* draw a card
     [words |->
         <<"draw", "a", "card">>,
      capitals |-> {}, punct |-> <<>>],
     \* When this dies, if you control a creature, then draw a card.
     [words |->
         <<"when", "this", "dies", "if", "you", "control", "a", "creature",
           "then", "draw", "a", "card">>,
      capitals |-> {1}, punct |-> 3 :> "," @@ 8 :> "," @@ 12 :> "."],
     \* Creatures you control get +1/+1.
     [words |->
         <<"creatures", "you", "control", "get", "+1/+1">>,
      capitals |-> {1}, punct |-> 5 :> "."],
     \* Enchanted creature gets +1/+1.
     [words |->
         <<"enchanted", "creature", "gets", "+1/+1">>,
      capitals |-> {1}, punct |-> 4 :> "."],
     \* Enchanted creature has flying.
     [words |->
         <<"enchanted", "creature", "has", "flying">>,
      capitals |-> {1}, punct |-> 4 :> "."],
     \* Flying. Target creature gets -1/-1.
     [words |->
         <<"flying", "target", "creature", "gets", "-1/-1">>,
      capitals |-> {1, 2}, punct |-> 1 :> "." @@ 5 :> "."],
     \* This creature becomes a copy of target creature.
     [words |->
         <<"this", "creature", "becomes", "a", "copy", "of", "target",
           "creature">>,
      capitals |-> {1}, punct |-> 8 :> "."],
     \* Target land becomes an artifact.
     [words |->
         <<"target", "land", "becomes", "an", "artifact">>,
      capitals |-> {1}, punct |-> 5 :> "."],
     \* Target spell becomes the color of your choice.
     [words |->
         <<"target", "spell", "becomes", "the", "color", "of", "your",
           "choice">>,
      capitals |-> {1}, punct |-> 8 :> "."],
     \* Trample
     [words |->
         <<"trample">>,
      capitals |-> {1}, punct |-> <<>>]>>

TokenizeTexts == 1..8

Instances == {1, 2}

\* str.lower(): no capital is left
lower(text) == [text EXCEPT !.capitals = {}]

\* the lists Tokenizer.__init__ builds; a phrase of trigger_words or
\* timing_modifiers is written as its words
WordLists ==
    [trigger_words |->
        {<<"when">>, <<"whenever">>, <<"at", "the", "beginning", "of">>,
         <<"at", "end", "of", "combat">>,
         <<"at", "the", "start", "of", "your", "upkeep">>,
         <<"at", "the", "end", "of", "your", "turn">>,
         <<"at", "your", "end", "step">>},
     condition_words |->
        {"if", "unless", "as long as", "until", "during", "instead",
         "after", "before", "whilst"},
     action_words |->
        {"draw", "discard", "destroy", "exile", "tap", "untap", "create",
         "gain", "lose", "search", "reveal", "return", "counter",
         "sacrifice", "sacrifices", "pay", "cast", "attack", "block",
         "equip", "enchant", "flip", "mill", "venture", "explore",
         "investigate", "amass", "fight", "adapt", "proliferate", "scry",
         "connive"},
     targeting_words |->
        {"target", "choose", "each", "any", "up to", "each opponent",
         "each player", "each creature", "opponent", "player",
         "planeswalker", "artifact", "enchantment", "creature", "land",
         "spell", "permanent", "nonland", "nontoken", "noncreature",
         "nonartifact"},
     zone_references |->
        {"battlefield", "graveyard", "exile", "library", "hand", "stack",
         "command zone"},
     timing_modifiers |->
        {<<"only", "as", "a", "sorcery">>, <<"instant", "speed">>,
         <<"during", "your", "upkeep">>, <<"during", "combat">>,
         <<"end", "of", "turn">>, <<"before", "damage">>,
         <<"after", "blockers", "are", "declared">>,
         <<"at", "any", "time">>},
     ability_keywords |->
        {"flying", "first strike", "double strike", "deathtouch",
         "lifelink", "vigilance", "trample", "hexproof", "menace", "ward",
         "indestructible", "protection", "haste", "reach"},
     articles_indefinite |->
        {"a", "an"},
     articles_definite |->
        {"the"},
     pronouns_subject |->
        {"you", "they"},
     pronouns_possessive |->
        {"your", "their"},
     quantifiers |->
        {"each", "any", "one", "all", "up to", "two", "three", "four",
         "five", "six", "seven", "eight", "nine", "ten", "x", "any number",
         "at least", "no more than"},
     verbs_control |->
        {"control", "controls"},
     verbs_state |->
        {"has", "have"},
     verbs_be |->
        {"is", "are", "was", "were"},
     modal_verbs |->
        {"choose", "may", "must", "can", "shall", "could"},
     prepositions |->
        {"of", "with", "without"},
     temporal_modifiers |->
        {"during", "before", "after"},
     noun_player_roles |->
        {"opponent", "player"},
     resource_terms |->
        {"life", "mana", "damage", "counter", "token"},
     object_terms |->
        {"card", "spell", "permanent", "player", "ability", "emblem"},
     effect_terms |->
        {"gain", "lose", "prevent", "add", "remove", "create", "destroy"}]

TokenizerOwnLists(instance) ==
    [WordLists EXCEPT !.action_words = IF instance = 1 THEN @ ELSE {}]

\* Tokenizer(): every instance builds the same lists
Tokenizer(instance) == WordLists

\* None, where a dict or a list may stand
None == <<>>

Token(type, value) == [type |-> type, value |-> value]

\* the single-word classification of tokenize
Classify(self, word) ==
    LET isdigit == word \in {"0", "1", "2", "3", "4", "5", "6", "7", "8",
                             "9", "10"}
    IN  CASE <<word>> \in self.trigger_words -> "TRIGGER_WORD"
          [] word \in self.condition_words -> "CONDITION_WORD"
          [] word \in self.action_words -> "ACTION_WORD"
          [] word \in self.targeting_words -> "TARGETING_WORD"
          [] word \in self.zone_references -> "ZONE_REFERENCE"
          [] <<word>> \in self.timing_modifiers -> "TIMING_MODIFIER"
          [] word \in self.ability_keywords -> "ABILITY_KEYWORD"
          [] word \in self.articles_indefinite -> "ARTICLE_INDEFINITE"
          [] word \in self.articles_definite -> "ARTICLE_DEFINITE"
          [] word \in self.pronouns_subject -> "PRONOUN_SUBJECT"
          [] word \in self.pronouns_possessive -> "PRONOUN_POSSESSIVE"
          [] word \in self.quantifiers -> "QUANTIFIER"
          [] word \in self.verbs_control -> "VERB_CONTROL"
          [] word \in self.verbs_state -> "VERB_STATE"
          [] word \in self.verbs_be -> "VERB_BE"
          [] word \in self.modal_verbs -> "MODAL_VERB"
          [] word \in self.prepositions -> "PREPOSITION"
          [] word \in self.temporal_modifiers -> "TEMPORAL_MODIFIER"
          [] word \in self.noun_player_roles -> "NOUN_PLAYER_ROLE"
          [] word \in self.resource_terms -> "RESOURCE_TERM"
          [] word \in self.object_terms -> "OBJECT_TERM"
          [] word \in self.effect_terms -> "EFFECT_TERM"
          [] isdigit -> "NUMERIC"
          [] OTHER -> "UNKNOWN"

\* the loop of tokenize from word i on: the windows of five, four, three
\* and two words first, then the word alone
RECURSIVE Scan(_, _, _)
Scan(self, words, i) ==
    IF i > Len(words) THEN <<>>
    ELSE LET phrase(n) == SubSeq(words, i, Min(i + n - 1, Len(words)))
             listed(p) == \/ p \in self.trigger_words
                              \/ p \in self.timing_modifiers
         IN  IF listed(phrase(5))
             THEN <<Token("TRIGGER_WORD", phrase(5))>>
                      \o Scan(self, words, i + 5)
             ELSE IF listed(phrase(4))
             THEN <<Token("TRIGGER_WORD", phrase(4))>>
                      \o Scan(self, words, i + 4)
             ELSE IF listed(phrase(3))
             THEN <<Token("TRIGGER_WORD", phrase(3))>>
                      \o Scan(self, words, i + 3)
             ELSE IF listed(phrase(2))
             THEN <<Token("TRIGGER_WORD", phrase(2))>>
                      \o Scan(self, words, i + 2)
             ELSE <<Token(Classify(self, words[i]), <<words[i]>>)>>
                      \o Scan(self, words, i + 1)

\* tokenizer.tokenize(text): lower case, clean_punctuation drops the marks
\* , . ; : ! ? and split gives the words
tokenize(self, text) ==
    LET clean_punctuation(t) ==
            [t EXCEPT !.punct =
                [i \in {j \in DOMAIN t.punct :
                            t.punct[j] \notin {",", ".", ";", ":", "!", "?"}}
                    |-> t.punct[i]]]
        cleaned == clean_punctuation(lower(text))
        split == [i \in 1..Len(cleaned.words) |->
                     IF i \in DOMAIN cleaned.punct
                     THEN <<cleaned.words[i], cleaned.punct[i]>>
                     ELSE cleaned.words[i]]
    IN  Scan(self, split, 1)

\* Tokenizer().tokenize(text)
Tokenize ==
    /\ parseCalls < MaxParse
    /\ calls = <<>>
    /\ parseCalls' = parseCalls + 1
    /\ \E t \in TokenizeTexts, instance \in Instances :
           LET tokens == tokenize(Tokenizer(instance), Texts[t])
           IN  /\ source_text' = t
               /\ tokenizer' = instance
               /\ parsed' = tokens
               /\ seen' = IF Has(seen, t) THEN seen
                          ELSE seen @@ (t :> [tokens |-> tokens,
                                               instance |-> instance,
                                               call |-> parseCalls'])
    /\ last' = [NoCall EXCEPT !.op = "tokenize"]
    /\ UNCHANGED calls
    /\ UNCHANGED stackVars
    /\ UNCHANGED gameVars
    /\ UNCHANGED triggerVars
    /\ UNCHANGED layerVars
    /\ UNCHANGED permVars
    /\ UNCHANGED combatVars
    /\ UNCHANGED effectVars
    /\ UNCHANGED managerVars

\* ---------------------------------------------------------------------
\* Trigger clauses (ClauserParsers)
\* ---------------------------------------------------------------------
TriggerTexts == (4..10) \cup {22}

\* the positions at which the phrase starts in the words
Occurrences(words, phrase) ==
    {i \in 1..Len(words) :
        /\ i + Len(phrase) - 1 <= Len(words)
        /\ SubSeq(words, i, i + Len(phrase) - 1) = phrase}

\* " ".join(t.value for t in tokens), as words
RECURSIVE Joined(_)
Joined(tokens) ==
    IF tokens = <<>> THEN <<>> ELSE Head(tokens).value \o Joined(Tail(tokens))

\* phrase in joined: the texts have no word that holds one of the phrases
\* inside it, so the phrase is looked for word by word
In(phrase, joined) == Occurrences(joined, phrase) # {}

RECURSIVE CollectReversible(_, _, _)
CollectReversible(tokens, i, c) ==
    IF i > Len(tokens) \/ tokens[i].value \in {<<",">>, <<"then">>}
    THEN [c EXCEPT !.i = i]
    ELSE LET token == tokens[i]
         IN  CollectReversible(tokens, i + 1,
                 IF token.type = "CONDITION_WORD"
                 THEN [c EXCEPT !.condition_tokens = Append(@, token)]
                 ELSE IF token.type \in {"ACTION_WORD", "ABILITY_KEYWORD"}
                 THEN [c EXCEPT !.action_tokens = Append(@, token)]
                 ELSE [c EXCEPT !.subject_tokens = Append(@, token)])

\* the while loop of _parse_trigger_tokens from token i on; c is
\* in_condition together with the three token lists
RECURSIVE Collect(_, _, _)
Collect(tokens, i, c) ==
    IF i > Len(tokens) \/ tokens[i].value \in {<<",">>, <<"then">>}
    THEN [c EXCEPT !.i = i]
    ELSE LET token == tokens[i]
             in_condition == c.in_condition \/ token.type = "CONDITION_WORD"
         IN  Collect(tokens, i + 1,
                 IF in_condition
                 THEN [c EXCEPT !.in_condition = TRUE,
                                !.condition_tokens = Append(@, token)]
                 ELSE IF token.type \in {"ACTION_WORD", "ABILITY_KEYWORD"}
                 THEN [c EXCEPT !.action_tokens = Append(@, token)]
                 ELSE [c EXCEPT !.subject_tokens = Append(@, token)])

\* _parse_subject(tokens) from token i on; subject["type"] is written as
\* the list of the values it holds
RECURSIVE _parse_subject(_, _, _)
_parse_subject(tokens, i, subject) ==
    IF i > Len(tokens) THEN subject
    ELSE LET value == tokens[i].value
             controls == /\ i + 1 <= Len(tokens)
                         /\ tokens[i + 1].value \in {<<"control">>,
                                                     <<"controls">>}
         IN  IF value \in {<<"each">>, <<"any">>, <<"one">>, <<"up", "to">>}
             THEN _parse_subject(tokens, i + 1,
                      [subject EXCEPT !.amount = value])
             ELSE IF value = <<"a">>
             THEN _parse_subject(tokens, i + 1,
                      [subject EXCEPT !.amount = 1])
             ELSE IF value \in {<<"you">>, <<"your">>}
             THEN _parse_subject(tokens, IF controls THEN i + 2 ELSE i + 1,
                      [subject EXCEPT !.controller = <<"you">>])
             ELSE IF value = <<"opponent">>
             THEN _parse_subject(tokens, IF controls THEN i + 2 ELSE i + 1,
                      [subject EXCEPT !.controller = <<"opponent">>])
             ELSE IF \/ tokens[i].type = "TARGETING_WORD"
                     \/ value \in {<<"creature">>, <<"land">>,
                            <<"planeswalker">>, <<"artifact">>,
                            <<"enchantment">>, <<"spell">>, <<"permanent">>}
             THEN _parse_subject(tokens, i + 1,
                      [subject EXCEPT !.type = @ \o value])
             ELSE _parse_subject(tokens, i + 1, subject)

ZoneChangeExileFirst(combined_subject) ==
    IF In(<<"is", "exiled">>, combined_subject)
    THEN [from |-> "battlefield", to |-> "exile"]
    ELSE IF In(<<"dies">>, combined_subject)
    THEN [from |-> "battlefield", to |-> "graveyard"]
    ELSE IF In(<<"enters", "the", "battlefield">>, combined_subject)
    THEN [to |-> "battlefield"]
    ELSE IF In(<<"leaves", "the", "battlefield">>, combined_subject)
    THEN [from |-> "battlefield"]
    ELSE None

\* the zone change detection of _parse_trigger_tokens
ZoneChange(combined_subject) ==
    IF In(<<"dies">>, combined_subject)
    THEN [from |-> "battlefield", to |-> "graveyard"]
    ELSE IF In(<<"is", "exiled">>, combined_subject)
    THEN [from |-> "battlefield", to |-> "exile"]
    ELSE IF In(<<"enters", "the", "battlefield">>, combined_subject)
    THEN [to |-> "battlefield"]
    ELSE IF In(<<"leaves", "the", "battlefield">>, combined_subject)
    THEN [from |-> "battlefield"]
    ELSE None

\* _parse_trigger_tokens(tokens, start_index), positions counted from 1
_parse_trigger_tokens(tokens, start_index) ==
    LET c == Collect(tokens, start_index + 1,
                 [i |-> start_index + 1, in_condition |-> FALSE,
                  subject_tokens |-> <<>>, action_tokens |-> <<>>,
                  condition_tokens |-> <<>>])
        combined_subject == Joined(c.subject_tokens)
        combined_action == Joined(c.action_tokens)
        next_end_step == <<"next", "end", "step">>
    IN  [trigger |->
            [type |-> tokens[start_index].value,
             event |->
                [subject |-> _parse_subject(c.subject_tokens, 1,
                                 [amount |-> None, controller |-> None,
                                  type |-> <<>>, modifiers |-> <<>>]),
                 action |-> IF c.action_tokens = <<>> THEN None
                            ELSE combined_action,
                 condition |-> IF c.condition_tokens = <<>> THEN None
                               ELSE Joined(c.condition_tokens),
                 zone_change |-> ZoneChange(combined_subject)],
             delayed |-> \/ In(next_end_step, combined_subject)
                         \/ In(next_end_step, combined_action)],
         i |-> c.i]

\* parse_trigger_clause(text), which tokenizes on the module's instance
ParseTriggerClause ==
    /\ parseCalls < MaxParse
    /\ calls = <<>>
    /\ parseCalls' = parseCalls + 1
    /\ \E t \in TriggerTexts :
           LET tokens == tokenize(Tokenizer(1), Texts[t])
           IN  /\ source_text' = t
               /\ parsed' = _parse_trigger_tokens(tokens, 1).trigger
    /\ last' = [NoCall EXCEPT !.op = "parse_trigger_clause"]
    /\ UNCHANGED <<seen, tokenizer, calls>>
    /\ UNCHANGED stackVars
    /\ UNCHANGED gameVars
    /\ UNCHANGED triggerVars
    /\ UNCHANGED layerVars
    /\ UNCHANGED permVars
    /\ UNCHANGED combatVars
    /\ UNCHANGED effectVars
    /\ UNCHANGED managerVars

\* ---------------------------------------------------------------------
\* OracleASTCompiler
\* ---------------------------------------------------------------------
CompileTexts == 11..16

\* the text made of the words of the text at the given positions, in
\* order, each with its capital and its mark
Pick(text, positions) ==
    LET nth(j) == CHOOSE i \in positions :
                      Cardinality({h \in positions : h < i}) = j - 1
        n == Cardinality(positions)
    IN  [words |-> [j \in 1..n |-> text.words[nth(j)]],
         capitals |-> {j \in 1..n : nth(j) \in text.capitals},
         punct |-> [j \in {h \in 1..n : nth(h) \in DOMAIN text.punct}
                       |-> text.punct[nth(j)]]]

\* the pieces of the text from word a on, cut after each word of ends,
\* whose mark is the separator and is dropped
RECURSIVE Pieces(_, _, _)
Pieces(text, ends, a) ==
    IF \E b \in ends : b >= a
    THEN LET b == CHOOSE e \in ends : e >= a /\ \A h \in ends : h >= a => e <= h
             piece == Pick(text, a..b)
         IN  <<[piece EXCEPT !.punct =
                   [j \in DOMAIN piece.punct \ {b - a + 1} |-> piece.punct[j]]]>>
                 \o Pieces(text, ends, b + 1)
    ELSE <<Pick(text, a..Len(text.words))>>

\* the pieces of the text between the words at the positions of seps
RECURSIVE Between(_, _, _)
Between(text, seps, a) ==
    IF \E b \in seps : b >= a
    THEN LET b == CHOOSE e \in seps : e >= a /\ \A h \in seps : h >= a => e <= h
         IN  <<Pick(text, a..(b - 1))>> \o Between(text, seps, b + 1)
    ELSE <<Pick(text, a..Len(text.words))>>

\* substring in word, for the substrings the compiler looks for
Inside(substring, word) ==
    CASE substring = "if" -> word \in {"if", "life", "lifelink"}
      [] OTHER -> word = substring

\* the number of words and marks of the text
Size(text) == Len(text.words) + Cardinality(DOMAIN text.punct)

\* _split_clauses(text): the em dash, written "em_dash" here, becomes "-",
\* then the text is split after each ". " and "; "
_split_clauses(text) ==
    LET dashed == [text EXCEPT !.words =
                      [i \in DOMAIN text.words |->
                          IF text.words[i] = "em_dash" THEN "-" ELSE text.words[i]]]
    IN  Pieces(dashed, {i \in DOMAIN dashed.punct :
                            /\ i < Len(dashed.words)
                            /\ dashed.punct[i] \in {".", ";"}}, 1)

\* _wrap_effect(text)
_wrap_effect(text) == [type |-> "effect", content |-> text]

\* _parse_modal_options(text)
_parse_modal_options(text) ==
    LET options == Pieces(Pick(text, 4..Len(text.words)),
                       {i \in DOMAIN text.punct : text.punct[i] = ";"} , 1)
    IN  [k \in 1..Len(SelectSeq(options, LAMBDA opt : opt.words # <<>>))
            |-> _wrap_effect(SelectSeq(options,
                                 LAMBDA opt : opt.words # <<>>)[k])]

\* _clean_repeat_text(text)
_clean_repeat_text(text) ==
    LET at == Occurrences(text.words, <<"repeat", "this", "process">>)
    IN  IF at # {}
        THEN Pick(text, 1..((CHOOSE i \in at : \A h \in at : i <= h) - 1))
        ELSE text

\* a call of compile(oracle_text) that has just been entered
Frame(oracle_text) ==
    [text |-> oracle_text, segments |-> _split_clauses(oracle_text),
     k |-> 1, ast |-> <<>>, wait |-> "none", node |-> None, rest |-> None]

\* what compile does with one segment: the nodes it appends, or the node
\* it is building and the text it compiles next
Segment(segment) ==
    LET normalized == lower(segment)
        words == normalized.words
        has(substring) == \E i \in 1..Len(words) : Inside(substring, words[i])
        first(word) == CHOOSE i \in 1..Len(words) :
                           /\ words[i] = word
                           /\ \A h \in 1..(i - 1) : words[h] # word
        consequence_part == Pick(normalized, (first("then") + 1)..Len(words))
        condition_part == Pick(normalized, 1..(first("then") - 1))
        replaced == [condition_part EXCEPT !.words =
                        [i \in DOMAIN condition_part.words |->
                            CASE condition_part.words[i] = "life" -> "le"
                              [] condition_part.words[i] = "lifelink" -> "lelink"
                              [] OTHER -> condition_part.words[i]]]
        condition == Pick(replaced, {i \in 1..Len(replaced.words) :
                                        replaced.words[i] # "if"})
        otherwise == {i \in 1..Len(consequence_part.words) :
                         consequence_part.words[i] = "otherwise"}
        split == Between(consequence_part,
                     {CHOOSE i \in otherwise : \A h \in otherwise : i <= h}, 1)
        ands == {i \in 2..(Len(words) - 1) : words[i] = "and"}
    IN  IF Len(words) >= 3 /\ SubSeq(words, 1, 3) = <<"choose", "one", "-">>
        THEN [calls |-> "no",
              nodes |-> <<[type |-> "modal",
                           options |-> _parse_modal_options(normalized)]>>]
        ELSE IF has("if") /\ has("then")
        THEN IF otherwise # {}
             THEN [calls |-> "then",
                   node |-> [type |-> "conditional", condition |-> condition],
                   text |-> split[1], rest |-> split[2]]
             ELSE [calls |-> "then",
                   node |-> [type |-> "conditional", condition |-> condition],
                   text |-> consequence_part, rest |-> None]
        ELSE IF \/ Occurrences(words, <<"repeat", "this", "process">>) # {}
                \/ Occurrences(words, <<"for", "each">>) # {}
        THEN [calls |-> "children",
              node |-> [type |-> "repeat", content |-> normalized],
              text |-> _clean_repeat_text(normalized), rest |-> None]
        ELSE IF /\ ands # {}
                /\ ~(/\ Len(words) >= 3
                     /\ SubSeq(words, 1, 3) = <<"search", "your", "library">>)
        THEN [calls |-> "no",
              nodes |-> LET parts == Between(normalized, ands, 1)
                        IN  [k \in 1..Len(parts) |-> _wrap_effect(parts[k])]]
        ELSE [calls |-> "no", nodes |-> <<_wrap_effect(normalized)>>]

\* OracleASTCompiler().compile(oracle_text) is called
Compile ==
    /\ parseCalls < MaxParse
    /\ calls = <<>>
    /\ parseCalls' = parseCalls + 1
    /\ \E t \in CompileTexts :
           /\ source_text' = t
           /\ calls' = <<Frame(Texts[t])>>
    /\ parsed' = None
    /\ last' = [NoCall EXCEPT !.op = "compile", !.outcome = "called"]
    /\ UNCHANGED <<seen, tokenizer>>
    /\ UNCHANGED stackVars
    /\ UNCHANGED gameVars
    /\ UNCHANGED triggerVars
    /\ UNCHANGED layerVars
    /\ UNCHANGED permVars
    /\ UNCHANGED combatVars
    /\ UNCHANGED effectVars
    /\ UNCHANGED managerVars

\* the innermost compile call handles its next segment; a recursive call
\* beyond the interpreter's recursion limit raises RecursionError, which
\* no caller catches
CompileSegment ==
    /\ calls # <<>>
    /\ LET top == Len(calls)
           f == calls[top]
       IN  /\ f.wait = "none"
           /\ f.k <= Len(f.segments)
           /\ LET seg == Segment(f.segments[f.k])
              IN  IF seg.calls = "no"
                  THEN /\ calls' = [calls EXCEPT ![top].ast = @ \o seg.nodes,
                                                 ![top].k = @ + 1]
                       /\ last' = [NoCall EXCEPT !.op = "compile",
                                                 !.outcome = "segment"]
                  ELSE IF top < MaxDepth
                  THEN /\ calls' = Append(
                              [calls EXCEPT ![top].wait = seg.calls,
                                            ![top].node = seg.node,
                                            ![top].rest = seg.rest],
                              Frame(seg.text))
                       /\ last' = [NoCall EXCEPT !.op = "compile",
                                                 !.outcome = "called"]
                  ELSE /\ calls' = <<>>
                       /\ last' = [NoCall EXCEPT !.op = "compile",
                                                 !.error = "RecursionError"]
    /\ UNCHANGED <<source_text, parsed, parseCalls, seen, tokenizer>>
    /\ UNCHANGED stackVars
    /\ UNCHANGED gameVars
    /\ UNCHANGED triggerVars
    /\ UNCHANGED layerVars
    /\ UNCHANGED permVars
    /\ UNCHANGED combatVars
    /\ UNCHANGED effectVars
    /\ UNCHANGED managerVars

\* the innermost compile call returns its ast, to its caller if it has one
CompileReturn ==
    /\ calls # <<>>
    /\ LET top == Len(calls)
           f == calls[top]
       IN  /\ f.k > Len(f.segments)
           /\ IF top = 1
              THEN /\ calls' = <<>>
                   /\ parsed' = f.ast
              ELSE LET c == calls[top - 1]
                       node == CASE c.wait = "then" -> c.node @@ [then |-> f.ast]
                                 [] c.wait = "else" -> c.node @@ [else |-> f.ast]
                                 [] c.wait = "children" ->
                                        c.node @@ [children |-> f.ast]
                       callers == SubSeq(calls, 1, top - 1)
                   IN  /\ parsed' = parsed
                       /\ IF c.wait = "then" /\ c.rest # None
                          THEN calls' = Append(
                                   [callers EXCEPT ![top - 1].wait = "else",
                                                   ![top - 1].node = node],
                                   Frame(c.rest))
                          ELSE calls' =
                                   [callers EXCEPT ![top - 1].wait = "none",
                                                   ![top - 1].node = None,
                                                   ![top - 1].rest = None,
                                                   ![top - 1].ast =
                                                       Append(@, node),
                                                   ![top - 1].k = @ + 1]
    /\ last' = [NoCall EXCEPT !.op = "compile", !.outcome = "returned"]
    /\ UNCHANGED <<source_text, parseCalls, seen, tokenizer>>
    /\ UNCHANGED stackVars
    /\ UNCHANGED gameVars
    /\ UNCHANGED triggerVars
    /\ UNCHANGED layerVars
    /\ UNCHANGED permVars
    /\ UNCHANGED combatVars
    /\ UNCHANGED effectVars
    /\ UNCHANGED managerVars

\* ---------------------------------------------------------------------
\* EffectParser and the effect phrase registry
\* ---------------------------------------------------------------------
\* STANDARD_EFFECTS, in the order of its keys, each phrase as its words
STANDARD_EFFECTS ==
    <<
     [key |-> "draw_card",
      phrases |->
              {<<"draw", "a", "card">>, <<"draw", "two", "cards">>,
               <<"draw", "three", "cards">>}],
     [key |-> "gain_life",
      phrases |->
              {<<"gain", "life">>, <<"you", "gain", "3", "life">>,
               <<"you", "gain", "1", "life">>}],
     [key |-> "lose_life",
      phrases |->
              {<<"lose", "life">>, <<"you", "lose", "2", "life">>,
               <<"you", "lose", "1", "life">>}],
     [key |-> "deal_damage",
      phrases |->
              {<<"deal", "damage">>, <<"deals", "2", "damage">>}],
     [key |-> "destroy_target",
      phrases |->
              {<<"destroy", "target">>,
               <<"destroy", "target", "tapped", "creature">>,
               <<"destroy", "target", "artifact">>,
               <<"destroy", "target", "planeswalker">>}],
     [key |-> "exile_target",
      phrases |->
              {<<"exile", "target">>,
               <<"exile", "up", "to", "one", "target">>}],
     [key |-> "tap_target",
      phrases |->
              {<<"tap", "target", "creature">>,
               <<"tap", "target", "permanent">>}],
     [key |-> "untap_target",
      phrases |->
              {<<"untap", "target", "creature">>,
               <<"untap", "target", "permanent">>}],
     [key |-> "return_to_hand",
      phrases |->
              {<<"return", "target", "creature", "to", "its", "owner's", "hand">>,
               <<"return", "target", "permanent", "to", "its", "owner's", "hand">>}],
     [key |-> "counter_spell",
      phrases |->
              {<<"counter", "target", "spell">>,
               <<"counter", "target", "activated", "ability">>,
               <<"counter", "target", "triggered", "ability">>}],
     [key |-> "create_token",
      phrases |->
              {<<"create", "a", "token">>,
               <<"create", "a", "1/1", "white", "vampire">>,
               <<"create", "a", "1/1", "white", "soldier", "creature", "token">>,
               <<"create", "a", "3/3", "green", "beast", "creature", "token">>,
               <<"create", "a", "clue", "token">>}],
     [key |-> "offspring",
      phrases |->
              {<<"offspring">>, <<"create", "an", "offspring", "token">>}],
     [key |-> "solve_case",
      phrases |->
              {<<"solve", "the", "case">>, <<"solved">>}],
     [key |-> "buff_all_creatures",
      phrases |->
              {<<"creatures", "you", "control", "get", "+1/+1">>,
               <<"other", "creatures", "you", "control", "get", "+1/+1">>}],
     [key |-> "combat_restrictions",
      phrases |->
              {<<"can't", "attack">>,
               <<"must", "attack", "each", "combat", "if", "able">>}],
     [key |-> "grant_keyword",
      phrases |->
              {<<"flying">>, <<"vigilance">>, <<"haste">>, <<"deathtouch">>,
               <<"trample">>, <<"first", "strike">>, <<"double", "strike">>,
               <<"lifelink">>, <<"hexproof">>, <<"indestructible">>,
               <<"menace">>, <<"ward">>, <<"reach">>, <<"protection">>}]>>

KEYWORD_ABILITIES ==
    <<<<"flying">>, <<"vigilance">>, <<"haste">>, <<"deathtouch">>,
      <<"trample">>, <<"first", "strike">>, <<"double", "strike">>,
      <<"lifelink">>, <<"hexproof">>, <<"indestructible">>, <<"menace">>,
      <<"ward">>, <<"reach">>, <<"protection">>>>

\* phrase in text: the words of the phrase follow one another in the text
\* with no mark between them
Holds(text, phrase) ==
    \E i \in Occurrences(text.words, phrase) :
        \A j \in i..(i + Len(phrase) - 2) : j \notin DOMAIN text.punct

\* entry["parse"](text) of the entry with this key; isdict tells a dict
\* from a list or None
ParseEntry(key, text) ==
    LET dict(value) == [isdict |-> TRUE, value |-> value]
        keywords(part) == SelectSeq(KEYWORD_ABILITIES,
                                    LAMBDA keyword : Holds(part, keyword))
        sizes == {"1/1", "2/2", "3/3"}
        sized == {i \in 1..Len(text.words) : text.words[i] \in sizes}
        size == text.words[CHOOSE i \in sized : \A h \in sized : i <= h]
        digit == CASE size = "1/1" -> 1 [] size = "2/2" -> 2 [] OTHER -> 3
        offspring == Holds(text, <<"offspring">>)
        parse_create_token_phrase ==
            [action |-> "create_token", effect_family |-> "token_creation",
             token |->
                [power |-> IF offspring THEN 1
                           ELSE IF sized = {} THEN None ELSE digit,
                 toughness |-> IF offspring THEN 1
                               ELSE IF sized = {} THEN None ELSE digit,
                 colors |-> SelectSeq(
                     <<"white", "blue", "black", "red", "green">>,
                     LAMBDA color : Holds(text, <<color>>)),
                 types |-> <<>>,
                 abilities |-> keywords(text),
                 copy_of |-> IF offspring THEN "source" ELSE None]]
        parse_power_toughness_modifier ==
            IF \E i \in DOMAIN text.words : text.words[i] = "+1/+1"
            THEN dict([type |-> "static_effect", layer |-> "7c",
                       power_boost |-> 1, toughness_boost |-> 1])
            ELSE IF \E i \in DOMAIN text.words : text.words[i] = "-1/-1"
            THEN dict([type |-> "static_effect", layer |-> "7c",
                       power_boost |-> -1, toughness_boost |-> -1])
            ELSE [isdict |-> FALSE, value |-> None]
        parse_static_combat_restriction ==
            IF Holds(text, <<"can't", "attack">>)
            THEN dict([type |-> "static_effect", layer |-> "6",
                       restriction |-> "cant_attack"])
            ELSE IF Holds(text, <<"must", "attack", "each", "combat", "if",
                                  "able">>)
            THEN dict([type |-> "static_effect", layer |-> "6",
                       restriction |-> "must_attack"])
            ELSE [isdict |-> FALSE, value |-> None]
        parts == Pieces(text, {i \in DOMAIN text.punct : text.punct[i] = ","},
                        1)
        detected == Joined([k \in 1..Len(parts) |->
                               [value |-> keywords(parts[k])]])
        parse_keyword_ability ==
            IF \E word \in {<<"gains">>, <<"target">>, <<"equipped">>,
                            <<"until", "end", "of", "turn">>} :
                   Holds(text, word)
            THEN dict([action |-> "unknown_effect"])
            ELSE IF detected # <<>>
            THEN [isdict |-> FALSE,
                  value |-> [k \in 1..Len(detected) |->
                                [type |-> "static_ability",
                                 ability |-> detected[k]]]]
            ELSE dict([action |-> "unknown_effect"])
    IN  CASE key \in {"create_token", "offspring"} ->
                 dict(parse_create_token_phrase)
          [] key = "solve_case" ->
                 dict([action |-> "set_state_flag",
                       effect_family |-> "state_modification",
                       flag |-> "solved"])
          [] key = "buff_all_creatures" -> parse_power_toughness_modifier
          [] key = "combat_restrictions" -> parse_static_combat_restriction
          [] key = "grant_keyword" -> parse_keyword_ability
          [] OTHER -> dict([action |-> key])

\* the entries of STANDARD_EFFECTS one of whose phrases is in the text
Matching(text) ==
    {k \in 1..Len(STANDARD_EFFECTS) :
        \E phrase \in STANDARD_EFFECTS[k].phrases : Holds(text, phrase)}

\* _parse_effect(text): the first entry with a phrase in the text parses it
_parse_effect(text) ==
    IF Matching(text) # {}
    THEN ParseEntry(
             STANDARD_EFFECTS[CHOOSE k \in Matching(text) :
                                  \A h \in Matching(text) : k <= h].key,
             text)
    ELSE [isdict |-> TRUE,
          value |-> [action |-> "unparsed_effect", raw_text |-> text]]

\* parse_ast(ast_node) for a list (parse_ast) and for a dict (ParseNode)
RECURSIVE parse_ast(_), ParseNode(_)
parse_ast(ast_node) ==
    [effect_chain |-> [k \in 1..Len(ast_node) |-> ParseNode(ast_node[k])],
     conditions |-> <<>>, targets |-> <<>>, zones |-> <<>>, timing |-> <<>>,
     modifiers |-> <<>>, repeat |-> FALSE, modal_choices |-> <<>>,
     choose_count |-> None]

ParseNode(ast_node) ==
    CASE ast_node.type = "modal" ->
             [parse_ast(<<>>) EXCEPT
                 !.choose_count = 1,
                 !.modal_choices = [k \in 1..Len(ast_node.options) |->
                                       ParseNode(ast_node.options[k])]]
      [] ast_node.type = "conditional" ->
             [type |-> "conditional", condition |-> ast_node.condition,
              then |-> parse_ast(ast_node.then),
              else |-> IF Has(ast_node, "else") THEN parse_ast(ast_node.else)
                       ELSE None]
      [] ast_node.type = "repeat" ->
             [parse_ast(ast_node.children) EXCEPT !.repeat = TRUE]
      [] ast_node.type = "effect" ->
             LET effect_text == lower(ast_node.content)
                 result == _parse_effect(effect_text)
             IN  IF result.isdict THEN result.value
                 ELSE [action |-> "unparsed_effect", raw_text |-> effect_text]
      [] OTHER -> [action |-> "unparsed_effect", raw_node |-> ast_node]

\* the ASTs handed to parse_ast: lists of nodes of the shape compile builds
Asts ==
    LET effect(t) == _wrap_effect(Texts[t])
    IN  <<<<effect(17), effect(21)>>,
          <<effect(18), effect(21)>>,
          <<effect(19)>>,
          <<effect(20)>>,
          <<[type |-> "conditional", condition |-> Texts[18],
             then |-> <<effect(21)>>, else |-> <<effect(18)>>]>>,
          <<[type |-> "modal", options |-> <<effect(21), effect(17)>>]>>,
          <<[type |-> "repeat", content |-> Texts[12],
             children |-> <<effect(21)>>]>>,
          <<[type |-> "trigger", content |-> Texts[21]], effect(21)>>>>

\* EffectParser().parse_ast(ast)
ParseAst ==
    /\ parseCalls < MaxParse
    /\ calls = <<>>
    /\ parseCalls' = parseCalls + 1
    /\ \E a \in 1..Len(Asts) :
           /\ source_text' = a
           /\ parsed' = parse_ast(Asts[a])
    /\ last' = [NoCall EXCEPT !.op = "parse_ast"]
    /\ UNCHANGED <<seen, tokenizer, calls>>
    /\ UNCHANGED stackVars
    /\ UNCHANGED gameVars
    /\ UNCHANGED triggerVars
    /\ UNCHANGED layerVars
    /\ UNCHANGED permVars
    /\ UNCHANGED combatVars
    /\ UNCHANGED effectVars
    /\ UNCHANGED managerVars

\* ---------------------------------------------------------------------
\* OracleRulesLayer and the static effects of OracleParserPipeline
\* ---------------------------------------------------------------------
\* the oracle texts of the cards whose static abilities are parsed
RulesTexts == 23..30

\* determine_layer(text): the tests are substring tests; a phrase is looked
\* for word by word, and a single word stands for the words of the texts
\* that hold it as a substring
determine_layer(text) ==
    LET words == text.words
        any(found) == \E i \in 1..Len(words) : words[i] \in found
        gets(signed) ==
            \E i \in Occurrences(words, <<"gets">>) :
                /\ i < Len(words)
                /\ i \notin DOMAIN text.punct
                /\ words[i + 1] \in signed
    IN  IF Holds(text, <<"becomes", "a", "copy">>) THEN StrLayer("Layer 1")
        ELSE IF \/ Holds(text, <<"you", "control">>)
                \/ Holds(text, <<"gain", "control">>)
        THEN StrLayer("Layer 2")
        ELSE IF /\ any({"becomes"})
                /\ \/ any({"type", "types"})
                   \/ any({"creature", "creatures"})
                   \/ any({"artifact", "artifacts"})
        THEN StrLayer("Layer 4")
        ELSE IF any({"color", "colors", "colorless"}) THEN StrLayer("Layer 5")
        ELSE IF any({"gains", "has", "haste", "loses"}) THEN StrLayer("Layer 6")
        ELSE IF \/ gets({"+1/+1", "+2/+2"})
                \/ gets({"-1/-1", "-2/-2"})
                \/ any({"+1/+1", "-1/-1"})
        THEN StrLayer("Layer 7c")
        ELSE NoLayer

\* the entries extract_abilities appends to card.abilities: one per piece
\* of the text between ". ", each with a descriptor whose layer is what
\* determine_layer said; time.time() is the timestamp
extract_abilities(oracle_text, timestamp) ==
    LET stops == {i \in DOMAIN oracle_text.punct :
                     oracle_text.punct[i] = "." /\ i < Len(oracle_text.words)}
        raw_abilities == IF oracle_text.words = <<>> THEN <<>>
                         ELSE Pieces(oracle_text, stops, 1)
        entry(raw) ==
            LET normalized_raw == lower(raw)
                words == normalized_raw.words
                starts(phrase) == /\ Len(words) >= Len(phrase)
                                  /\ SubSeq(words, 1, Len(phrase)) = phrase
                triggered == \/ starts(<<"at", "the", "beginning">>)
                             \/ starts(<<"whenever">>)
                             \/ starts(<<"when">>)
                colon == \E i \in DOMAIN raw.punct : raw.punct[i] = ":"
            IN  [type |-> IF triggered THEN "triggered"
                          ELSE IF starts(<<"if">>) THEN "replacement"
                          ELSE IF colon THEN "activated"
                          ELSE "static",
                 condition |-> IF triggered THEN "trigger_detected"
                               ELSE IF starts(<<"if">>)
                               THEN "replacement_condition"
                               ELSE IF colon THEN "cost_paid"
                               ELSE "always",
                 effect_descriptor |->
                     StaticEffectDescriptor(
                         [target_class |-> "permanent", power_boost |-> 0,
                          toughness_boost |-> 0, granted_abilities |-> <<>>,
                          rules_overwrites |-> {}, restrictions |-> {}],
                         determine_layer(normalized_raw), timestamp)]
    IN  [k \in 1..Len(raw_abilities) |-> entry(raw_abilities[k])]

\* what each call can produce, worked out once for every text and time
Extracted ==
    [t \in RulesTexts |->
        [ts \in Timestamps |-> extract_abilities(Texts[t], ts)]]

\* OracleRulesLayer.extract_abilities(card)
ExtractAbilities ==
    /\ parseCalls < MaxParse
    /\ parseCalls' = parseCalls + 1
    /\ \E t \in RulesTexts, ts \in Timestamps :
           /\ source_text' = t
           /\ parsed' = [abilities |-> Extracted[t][ts]]
    /\ last' = [NoCall EXCEPT !.op = "extract_abilities"]
    /\ UNCHANGED <<seen, tokenizer, calls>>
    /\ UNCHANGED stackVars
    /\ UNCHANGED gameVars
    /\ UNCHANGED triggerVars
    /\ UNCHANGED layerVars
    /\ UNCHANGED permVars
    /\ UNCHANGED combatVars
    /\ UNCHANGED effectVars
    /\ UNCHANGED managerVars

\* how often the signed word stands in the text: str.count
CountOf(text, signed) ==
    Cardinality({i \in 1..Len(text.words) : text.words[i] = signed})

\* the texts in which compile meets no segment that makes it call itself
FlatTexts ==
    {t \in RulesTexts :
        LET segments == _split_clauses(lower(Texts[t]))
        IN  \A k \in 1..Len(segments) : Segment(segments[k]).calls = "no"}

\* what parse_oracle_text(card, oracle_text) leaves on the card, for a text
\* of FlatTexts
parse_oracle_text(oracle_text, timestamp) ==
    LET normalized_text == lower(oracle_text)
        segments == _split_clauses(normalized_text)
        RECURSIVE ast_tree(_)
        ast_tree(k) == IF k = 0 THEN <<>>
                       ELSE ast_tree(k - 1) \o Segment(segments[k]).nodes
        boost == CountOf(normalized_text, "+1/+1")
                     - CountOf(normalized_text, "-1/-1")
        descriptor ==
            StaticEffectDescriptor(
                [target_class |-> "creatures you control",
                 power_boost |-> boost, toughness_boost |-> boost,
                 granted_abilities |-> <<>>, rules_overwrites |-> {},
                 restrictions |-> {}],
                StrLayer("7c"), timestamp)
    IN  [behavior_tree |-> <<parse_ast(ast_tree(Len(segments)))>>,
         static_ability_tags |->
             SelectSeq(KEYWORD_ABILITIES,
                 LAMBDA keyword : Holds(normalized_text, keyword)),
         static_effects |->
             IF \/ CountOf(normalized_text, "+1/+1") > 0
                \/ CountOf(normalized_text, "-1/-1") > 0
             THEN <<descriptor>> ELSE <<>>]

PipelineParsed ==
    [t \in FlatTexts |->
        [ts \in Timestamps |-> parse_oracle_text(Texts[t], ts)]]

\* OracleParserPipeline.parse_oracle_text(card, oracle_text)
ParseOracleText ==
    /\ parseCalls < MaxParse
    /\ parseCalls' = parseCalls + 1
    /\ \E t \in FlatTexts, ts \in Timestamps :
           /\ source_text' = t
           /\ parsed' = PipelineParsed[t][ts]
    /\ last' = [NoCall EXCEPT !.op = "parse_oracle_text"]
    /\ UNCHANGED <<seen, tokenizer, calls>>
    /\ UNCHANGED stackVars
    /\ UNCHANGED gameVars
    /\ UNCHANGED triggerVars
    /\ UNCHANGED layerVars
    /\ UNCHANGED permVars
    /\ UNCHANGED combatVars
    /\ UNCHANGED effectVars
    /\ UNCHANGED managerVars

\* the descriptors the card carries after the last parse
ParsedDescriptors ==
    IF parsed = None THEN <<>>
    ELSE IF Has(parsed, "abilities")
    THEN [k \in 1..Len(parsed.abilities) |-> parsed.abilities[k].effect_descriptor]
    ELSE IF Has(parsed, "static_effects") THEN parsed.static_effects
    ELSE <<>>

\* LayerManager.register_effect(effect) with a descriptor of the parsed card
RegisterParsed ==
    /\ effectCount < MaxEffects
    /\ effectCount' = effectCount + 1
    /\ \E k \in 1..Len(ParsedDescriptors) :
           LET effect == ParsedDescriptors[k]
               bucket == BucketOf(effect.layer)
           IN  IF bucket[1] = "layers"
               THEN /\ layers' = [layers EXCEPT ![bucket[2]] = Append(@, effect)]
                    /\ UNCHANGED sublayers_7
                    /\ last' = [NoCall EXCEPT !.op = "register_parsed",
                                              !.layer = effect.layer]
               ELSE IF bucket[1] = "sublayers_7"
               THEN /\ sublayers_7' =
                           [sublayers_7 EXCEPT ![bucket[2]] = Append(@, effect)]
                    /\ UNCHANGED layers
                    /\ last' = [NoCall EXCEPT !.op = "register_parsed",
                                              !.layer = effect.layer]
               ELSE /\ UNCHANGED <<layers, sublayers_7>>
                    /\ last' = [NoCall EXCEPT !.op = "register_parsed",
                                              !.layer = effect.layer,
                                              !.error = "ValueError"]
    /\ UNCHANGED <<applied, applyCount>>
    /\ UNCHANGED stackVars
    /\ UNCHANGED gameVars
    /\ UNCHANGED triggerVars
    /\ UNCHANGED permVars
    /\ UNCHANGED combatVars
    /\ UNCHANGED effectVars
    /\ UNCHANGED parserVars
    /\ UNCHANGED managerVars


\* ---------------------------------------------------------------------
\* Initial state
\* ---------------------------------------------------------------------
\* the state after construction, but for the mode of the game manager
Constructed ==
    /\ stack = <<>>
    /\ resolved = {}
    /\ nextId = 0
    /\ valid = [t \in Players \cup Perms |-> TRUE]
    /\ life = [p \in Players |-> StartLife]
    /\ damage = [c \in Perms |-> 0]
    /\ zones = [p \in Players |-> [z \in ZoneNames |->
                   IF z = "battlefield"
                   THEN (IF p = "P1" THEN <<"c1">> ELSE <<"c2">>)
                   ELSE <<>>]]
    /\ cardZone = [c \in Perms |-> "battlefield"]
    /\ controller = [c \in Perms |-> IF c = "c1" THEN "P1" ELSE "P2"]
    /\ registered = <<>>
    /\ pending = <<>>
    /\ fired = FALSE
    /\ events = <<>>
    /\ last = NoCall
    /\ layers = [i \in 1..7 |-> <<>>]
    /\ sublayers_7 = [s \in {"7a", "7b", "7c", "7d"} |-> <<>>]
    /\ effectCount = 0
    /\ applied = <<>>
    /\ applyCount = 0
    /\ power = [c \in Perms |-> 2]
    /\ toughness = [c \in Perms |-> 2]
    /\ abilities = [c \in Perms |-> <<>>]
    /\ life_gain_prevention = {}
    /\ must_attack = {}
    /\ phase_index = 0
    /\ turn_index = 0
    /\ attackers = <<>>
    /\ blockers = <<>>
    /\ combat = NoCombat
    /\ tapped = [c \in Perms |-> FALSE]
    /\ status = [c \in Perms |-> "none"]
    /\ loyalty = [c \in {} |-> 0]
    /\ log = <<>>
    /\ assignments = <<>>
    /\ combatCalls = 0
    /\ declared = "none"
    /\ damageAssigned = FALSE
    /\ target_resolved = <<>>
    /\ returned = <<>>
    /\ executions = 0
    /\ executed = [card |-> "none", flags |-> <<>>, dynamic_refs |-> <<>>]
    /\ source_text = 0
    /\ parsed = <<>>
    /\ parseCalls = 0
    /\ seen = <<>>
    /\ tokenizer = 0
    /\ calls = <<>>
    /\ current_index = 0
    /\ turn_player_index = 0
    /\ passed = <<FALSE, FALSE>>
    /\ active_index = 0
    /\ pc = "idle"
    /\ turns = 0
    /\ lands_played_this_turn = [p \in Players |-> 0]

Init == Constructed /\ headless_mode = FALSE

\* GameManager(..., headless=True) or GameManager(..., headless=False)
InitManager == Constructed /\ headless_mode \in BOOLEAN

Next == Cast \/ Pop \/ ResolveTop \/ SetValid

Spec == Init /\ [][Next]_vars

NextTrigger == Register \/ FireNow \/ MoveCard \/ CheckAndPush \/ CastPlain

SpecTrigger == Init /\ [][NextTrigger]_vars

NextLayer == RegisterEffect \/ ApplyLayers

SpecLayer == Init /\ [][NextLayer]_vars

NextEffect == Execute

SpecEffect == Init /\ [][NextEffect]_vars

NextParse ==
    \/ Tokenize
    \/ ParseTriggerClause
    \/ Compile
    \/ CompileSegment
    \/ CompileReturn
    \/ ParseAst

SpecParse == Init /\ [][NextParse]_vars

NextRules == ExtractAbilities \/ ParseOracleText \/ RegisterParsed

SpecRules == Init /\ [][NextRules]_vars

NextZones == MoveCard \/ Draw \/ PlayLand

SpecZones == Init /\ [][NextZones]_vars

NextManager ==
    \/ ExecuteTurn
    \/ ExecutePhase
    \/ PassPriority
    \/ TurnReturns
    \/ CastBetweenTurns

SpecManager == InitManager /\ [][NextManager]_vars

\* the manager keeps running: a call in progress takes its next step
SpecManagerLive ==
    InitManager /\ [][NextManager]_vars /\ WF_vars(NextManager)

\* the state a combat starts from: P1 controls a1 to a4, the artifact art
\* and the card h1 in hand; P2 controls b1, b2, the tapped b3 and the
\* planeswalker pw; b1 and b3 carry the marked damage earlier combats have
\* left on them
CombatBoard(marked) ==
    /\ stack = <<>>
    /\ resolved = {}
    /\ nextId = 0
    /\ valid = [t \in Players \cup CombatCards |-> TRUE]
    /\ life = [p \in Players |-> StartLife]
    /\ damage = [c \in CombatCards |->
                    IF c \in {"b1", "b3"} THEN marked ELSE 0]
    /\ zones = [p \in Players |-> [z \in ZoneNames |->
                   IF z = "battlefield"
                   THEN (IF p = "P1"
                         THEN <<"a1", "a2", "a3", "a4", "art">>
                         ELSE <<"b1", "b2", "b3", "pw">>)
                   ELSE IF z = "hand" /\ p = "P1" THEN <<"h1">>
                   ELSE <<>>]]
    /\ cardZone = [c \in CombatCards |->
                      IF c = "h1" THEN "hand" ELSE "battlefield"]
    /\ controller = [c \in CombatCards |->
                        IF c \in {"b1", "b2", "b3", "pw"} THEN "P2" ELSE "P1"]
    /\ registered = <<>>
    /\ pending = <<>>
    /\ fired = FALSE
    /\ events = <<>>
    /\ last = NoCall
    /\ layers = [i \in 1..7 |-> <<>>]
    /\ sublayers_7 = [s \in {"7a", "7b", "7c", "7d"} |-> <<>>]
    /\ effectCount = 0
    /\ applied = <<>>
    /\ applyCount = 0
    /\ power \in {[c \in CombatCards |->
                   CASE c = "a1" -> p
                     [] c \in {"a3", "b2"} -> 3
                     [] c \in {"art", "pw"} -> 0
                     [] OTHER -> 2] : p \in {1, 4}}
    /\ toughness = [c \in CombatCards |->
                       CASE c \in {"a1", "b1"} -> 3
                         [] c \in {"art", "pw"} -> 0
                         [] OTHER -> 2]
    /\ abilities = [c \in CombatCards |-> <<>>]
    /\ life_gain_prevention = {}
    /\ must_attack = {}
    /\ phase_index = 0
    /\ turn_index = 0
    /\ attackers = <<>>
    /\ blockers = <<>>
    /\ combat = NoCombat
    /\ tapped = [c \in CombatCards |-> c \in {"a2", "b3"}]
    /\ status = [c \in CombatCards |-> "none"]
    /\ loyalty = [c \in {"pw"} |-> 3]
    /\ log = <<>>
    /\ assignments = <<>>
    /\ combatCalls = 0
    /\ declared = "none"
    /\ damageAssigned = FALSE
    /\ target_resolved = <<>>
    /\ returned = <<>>
    /\ executions = 0
    /\ executed = [card |-> "none", flags |-> <<>>, dynamic_refs |-> <<>>]
    /\ source_text = 0
    /\ parsed = <<>>
    /\ parseCalls = 0
    /\ seen = <<>>
    /\ tokenizer = 0
    /\ calls = <<>>
    /\ current_index = 0
    /\ turn_player_index = 0
    /\ passed = <<FALSE, FALSE>>
    /\ active_index = 0
    /\ headless_mode = FALSE
    /\ pc = "idle"
    /\ turns = 0
    /\ lands_played_this_turn = [p \in Players |-> 0]

\* a combat on a board without marked damage
InitCombat == CombatBoard(0)

\* a combat on a board where b1 and b3 carry 4 damage
InitDamaged == CombatBoard(4)

NextCombat ==
    \/ DeclareAttackers
    \/ DeclareBlockers
    \/ AssignCombatDamage
    \/ AdvancePhase
    \/ NextTurn

SpecCombat == InitCombat /\ [][NextCombat]_vars

NextDamaged ==
    \/ DeclareAttackers
    \/ DeclareBlockers
    \/ AssignCombatDamage
    \/ AdvancePhase
    \/ CheckStateBasedActions

SpecDamaged == InitDamaged /\ [][NextDamaged]_vars

\* ---------------------------------------------------------------------
\* Properties of the stack (checked under Spec)
\* ---------------------------------------------------------------------
Top == stack[Len(stack)]

Removes == last'.op \in {"pop", "resolve_top"} /\ stack # <<>>

Resolves == last'.op = "resolve_top" /\ stack # <<>>

AllTargetsIllegal(obj) ==
    /\ obj.targets # <<>>
    /\ \A i \in 1..Len(obj.targets) : ~valid[obj.targets[i]]

SomeTargetsIllegal(obj) ==
    /\ \E i \in 1..Len(obj.targets) : valid[obj.targets[i]]
    /\ \E i \in 1..Len(obj.targets) : ~valid[obj.targets[i]]

GameStateUnchanged ==
    /\ life' = life
    /\ damage' = damage
    /\ zones' = zones
    /\ cardZone' = cardZone
    /\ controller' = controller

TargetUnchanged(t) ==
    /\ t \in Players => life'[t] = life[t]
    /\ t \in Perms => /\ damage'[t] = damage[t]
                      /\ cardZone'[t] = cardZone[t]
                      /\ controller'[t] = controller[t]
                      /\ \A p \in Players, z \in ZoneNames :
                             InSeq(zones'[p][z], t) <=> InSeq(zones[p][z], t)

\* C1: pop and resolve_top remove the most recently pushed entry that is
\* still on the stack and leave the other entries in their order; push adds
\* on top; no other call changes the stack.
StackIsLifo ==
    [][/\ Removes =>
            /\ last'.obj.id = Top.id
            /\ \A i \in 1..Len(stack) : stack[i].id <= Top.id
            /\ stack' = SubSeq(stack, 1, Len(stack) - 1)
       /\ last'.op = "push" =>
            /\ Len(stack') = Len(stack) + 1
            /\ SubSeq(stack', 1, Len(stack)) = stack
       /\ last'.op \notin {"pop", "resolve_top", "push"} => stack' = stack
      ]_vars

\* a removal has left two older entries below it
WitnessLifo ==
    /\ last.op \in {"pop", "resolve_top"}
    /\ last.obj.id = 3
    /\ Len(stack) = 2

\* C2: resolve_top on an entry that declared targets, all of them illegal,
\* returns the fizzle result without calling the effect engine, and life
\* totals, zones and marked damage are what they were.
FizzleLeavesStateUnchanged ==
    [][(Resolves /\ AllTargetsIllegal(Top)) =>
            /\ last'.outcome = "fizzle"
            /\ ~last'.engine
            /\ GameStateUnchanged
      ]_vars

\* a damage spell on two targets has fizzled
WitnessFizzle ==
    /\ last.op = "resolve_top"
    /\ last.outcome = "fizzle"
    /\ Len(last.obj.targets) = 2
    /\ last.obj.effect_ir[1].action = "deal_damage"
    /\ \A t \in {"P2", "c1"} : ~valid[t]

\* C3: when some but not all declared targets are legal at resolve_top, the
\* entry resolves and no target that is illegal is changed by the resolution.
PartialFizzleSparesIllegalTargets ==
    [][(Resolves /\ SomeTargetsIllegal(Top) /\ last'.asked # "no") =>
            /\ last'.outcome = "resolved"
            /\ \A i \in 1..Len(Top.targets) :
                   ~valid[Top.targets[i]] => TargetUnchanged(Top.targets[i])
      ]_vars

\* C4: after resolve_top on a non-empty stack the removed entry has
\* resolved = True and is not on the stack, whether it resolved, fizzled or
\* was declined.
RemovedEntryIsResolved ==
    (last.op = "resolve_top" /\ last.outcome # "empty") =>
        /\ last.outcome \in {"resolved", "fizzle", "declined"}
        /\ last.obj.id \in resolved
        /\ \A i \in 1..Len(stack) : stack[i].id # last.obj.id

\* an entry has fizzled above another entry that is still on the stack
WitnessRemovedResolved ==
    /\ last.op = "resolve_top"
    /\ last.outcome = "fizzle"
    /\ last.obj.id \in resolved
    /\ stack # <<>>
    /\ Cardinality(resolved) = 2

ExpectedEvent(obj) ==
    IF AllTargetsIllegal(obj) THEN "StackFizzle"
    ELSE IF last'.asked = "no" THEN "StackDeclined"
    ELSE "StackResolution"

\* C5: every resolve_top that removes an entry logs exactly one event, for
\* that entry, of the kind of its outcome (fizzle, declined, else resolution
\* with the result); no other call logs an event.
OneEventPerResolution ==
    [][/\ Resolves =>
            /\ Len(events') = Len(events) + 1
            /\ SubSeq(events', 1, Len(events)) = events
            /\ events'[Len(events')].id = Top.id
            /\ events'[Len(events')].kind = ExpectedEvent(Top)
            /\ events'[Len(events')].kind = "StackResolution" =>
                   events'[Len(events')].result = last'.outcome
       /\ ~Resolves => events' = events
      ]_vars

\* the three kinds of event have been logged, one per resolution
WitnessThreeEvents ==
    /\ Len(events) = 3
    /\ {events[i].kind : i \in 1..3} =
           {"StackFizzle", "StackDeclined", "StackResolution"}

\* C6: resolve_top on an optional entry whose controller declines marks it
\* resolved, returns the decline result and does not execute its effect:
\* the game state is unchanged.
DeclineLeavesStateUnchanged ==
    [][/\ (Resolves /\ last'.asked = "no") =>
            /\ Top.optional
            /\ last'.outcome = "declined"
            /\ Top.id \in resolved'
            /\ ~last'.engine
            /\ GameStateUnchanged
       /\ (Resolves /\ Top.optional /\ ~AllTargetsIllegal(Top)) =>
            last'.asked \in {"yes", "no"}
       /\ (Resolves /\ ~Top.optional) => last'.outcome # "declined"
      ]_vars

\* an optional destroy spell with a legal target has been declined
WitnessDecline ==
    /\ last.op = "resolve_top"
    /\ last.outcome = "declined"
    /\ last.obj.optional
    /\ last.obj.effect_ir[1].action = "destroy_target"
    /\ valid["c1"]
    /\ cardZone["c1"] = "battlefield"

\* ---------------------------------------------------------------------
\* Properties of the trigger queue (checked under SpecTrigger)
\* ---------------------------------------------------------------------
\* C7: check_and_push with the StackEngine drains pending: afterwards
\* pending is empty and the stack has grown by one TriggeredAbility for each
\* pending (effect_ir, source) pair.
CheckAndPushDrainsPending ==
    [][last'.op = "check_and_push" =>
            /\ pending' = <<>>
            /\ Len(stack') = Len(stack) + Len(pending)
            /\ SubSeq(stack', 1, Len(stack)) = stack
            /\ \A k \in 1..Len(pending) :
                   /\ stack'[Len(stack) + k].kind = "TriggeredAbility"
                   /\ stack'[Len(stack) + k].source = pending[k].source
                   /\ stack'[Len(stack) + k].effect_ir = pending[k].effect_ir
      ]_vars

\* C8: as long as fire_now has not been called, register and move_card
\* leave pending empty, and check_and_push returns without pushing anything.
RegisteredNeverReachesStack ==
    [][~fired' =>
            /\ pending' = <<>>
            /\ last'.op = "check_and_push" =>
                   /\ stack' = stack
                   /\ last'.error = "none"
      ]_vars

\* check_and_push has run with triggers registered, one of them by a move
\* to the battlefield, and fire_now never called
WitnessNoAutomaticTrigger ==
    /\ ~fired
    /\ last.op = "check_and_push"
    /\ Len(registered) = 2
    /\ cardZone["c1"] = "battlefield"
    /\ controller["c1"] = "P2"

\* ---------------------------------------------------------------------
\* Properties of the layer manager (checked under SpecLayer)
\* ---------------------------------------------------------------------
\* the nine legal layer designations, in the order of CR 613
DesignationRank(layer) ==
    IF layer.t = "int" /\ layer.i \in 1..6 THEN layer.i
    ELSE IF layer = StrLayer("7a") THEN 7
    ELSE IF layer = StrLayer("7b") THEN 8
    ELSE IF layer = StrLayer("7c") THEN 9
    ELSE IF layer = StrLayer("7d") THEN 10
    ELSE 0

IsLegalDesignation(layer) == DesignationRank(layer) # 0

AllBuckets ==
    [r \in 1..10 |-> IF r <= 6 THEN layers[r]
                     ELSE sublayers_7[SublayerNames[r - 6]]]

\* C9: apply_layers applies the registered descriptors layer by layer, 1 to
\* 6 then 7a, 7b, 7c, 7d, and by ascending timestamp within a layer,
\* whatever the order of registration; each registered descriptor once.
LayersAppliedInOrder ==
    last.op = "apply_layers" =>
        /\ \A i, j \in 1..Len(applied) :
               (/\ i < j
                /\ IsLegalDesignation(applied[i].layer)
                /\ IsLegalDesignation(applied[j].layer)) =>
                   \/ DesignationRank(applied[i].layer)
                          < DesignationRank(applied[j].layer)
                   \/ /\ DesignationRank(applied[i].layer)
                             = DesignationRank(applied[j].layer)
                      /\ applied[i].timestamp <= applied[j].timestamp
        /\ \A r \in 1..10 : \A k \in 1..Len(AllBuckets[r]) :
               Cardinality({i \in 1..Len(applied) :
                               applied[i] = AllBuckets[r][k]})
                   = Cardinality({<<q, i>> \in (1..10) \X (1..MaxEffects) :
                                    /\ i <= Len(AllBuckets[q])
                                    /\ AllBuckets[q][i] = AllBuckets[r][k]})
        /\ Len(applied) = Len(LayerOrder(6)) + Len(SublayerOrder(4))

\* two 7c descriptors, the one with timestamp 2 registered first, have been
\* applied: timestamp 1 first
WitnessTimestampOrder ==
    /\ last.op = "apply_layers"
    /\ Len(applied) = 2
    /\ Len(sublayers_7["7c"]) = 2
    /\ sublayers_7["7c"][1].timestamp = 2 /\ sublayers_7["7c"][2].timestamp = 1
    /\ applied[1] = sublayers_7["7c"][2] /\ applied[2] = sublayers_7["7c"][1]

BucketsUnchanged == layers' = layers /\ sublayers_7' = sublayers_7

\* one descriptor of that layer has been appended to bucket r, and nothing
\* to any other bucket
FiledIn(r, layer) ==
    /\ Len(AllBuckets'[r]) = Len(AllBuckets[r]) + 1
    /\ SubSeq(AllBuckets'[r], 1, Len(AllBuckets[r])) = AllBuckets[r]
    /\ AllBuckets'[r][Len(AllBuckets'[r])].layer = layer
    /\ \A q \in 1..10 : q # r => AllBuckets'[q] = AllBuckets[q]
    /\ layers'[7] = layers[7]

\* C10 as stated: register_effect accepts exactly the nine legal
\* designations and files the descriptor in the bucket of its layer; for
\* every other layer value it raises and leaves every bucket as it was.
RegisterAcceptsOnlyLegalLayers ==
    [][last'.op = "register_effect" =>
            IF IsLegalDesignation(last'.layer)
            THEN /\ last'.error = "none"
                 /\ FiledIn(DesignationRank(last'.layer), last'.layer)
            ELSE /\ last'.error = "ValueError"
                 /\ BucketsUnchanged
      ]_vars

\* C10 amended: register_effect accepts the nine legal designations and
\* also the bare layer 7, which it files in 7d; for every
\* other layer value it raises and leaves every bucket as it was.
RegisterAcceptsLegalLayersAndSeven ==
    [][last'.op = "register_effect" =>
            IF IsLegalDesignation(last'.layer)
            THEN /\ last'.error = "none"
                 /\ FiledIn(DesignationRank(last'.layer), last'.layer)
            ELSE IF last'.layer = IntLayer(7)
            THEN /\ last'.error = "none"
                 /\ FiledIn(10, last'.layer)
            ELSE /\ last'.error = "ValueError"
                 /\ BucketsUnchanged
      ]_vars

\* a registration has been refused while a descriptor registered with the
\* bare layer 7 sits in 7d
WitnessRefusedRegistration ==
    /\ last.op = "register_effect"
    /\ last.error = "ValueError"
    /\ last.layer = NoLayer
    /\ Len(sublayers_7["7d"]) = 1
    /\ sublayers_7["7d"][1].layer = IntLayer(7)

\* every registered descriptor, bucket after bucket in registration order
RECURSIVE RegisteredUpTo(_)
RegisteredUpTo(r) ==
    IF r = 0 THEN layers[7] ELSE RegisteredUpTo(r - 1) \o AllBuckets[r]

\* the sum of the boosts (of power when ofPower, else of toughness) of the
\* descriptors of a list that match a permanent
RECURSIVE BoostSum(_, _, _)
BoostSum(effects, permanent, ofPower) ==
    IF effects = <<>> THEN 0
    ELSE (IF matches_target(Head(effects), permanent)
          THEN (IF ofPower THEN Head(effects).power_boost
                ELSE Head(effects).toughness_boost)
          ELSE 0)
         + BoostSum(Tail(effects), permanent, ofPower)

\* C11: one apply_layers call leaves each permanent of the battlefield
\* with its power and toughness of before the call plus the sum of the
\* boosts of all registered descriptors that match it, whatever their
\* timestamps and their order of registration.
BoostsAreAdditive ==
    [][last'.op = "apply_layers" =>
            \A i \in 1..Len(Battlefield) :
                /\ power'[Battlefield[i]] = power[Battlefield[i]]
                       + BoostSum(RegisteredUpTo(10), Battlefield[i], TRUE)
                /\ toughness'[Battlefield[i]] = toughness[Battlefield[i]]
                       + BoostSum(RegisteredUpTo(10), Battlefield[i], FALSE)
      ]_vars

\* +1/+1 on permanents at timestamp 1 and -1/-1 on creatures at timestamp
\* 2, both in 7c and registered latest first, have been applied once: the
\* creature c1 is back at 2/2, the artifact c2 is 3/3
WitnessBoostsCancel ==
    /\ last.op = "apply_layers"
    /\ applyCount = 1
    /\ Len(sublayers_7["7c"]) = 2
    /\ sublayers_7["7c"][1].timestamp = 2
    /\ sublayers_7["7c"][1].power_boost = -1
    /\ sublayers_7["7c"][2].timestamp = 1
    /\ sublayers_7["7c"][2].power_boost = 1
    /\ power["c1"] = 2 /\ toughness["c1"] = 2
    /\ power["c2"] = 3 /\ toughness["c2"] = 3

\* ---------------------------------------------------------------------
\* Properties of the combat engine (checked under SpecCombat)
\* ---------------------------------------------------------------------
\* the legality checks of declare_attackers on one pair, in the state
\* before the call
PassesChecks(entry) ==
    /\ cardZone[entry[1]] = "battlefield"
    /\ controller[entry[1]] = current_player
    /\ IsCreature(entry[1])
    /\ ~tapped[entry[1]]
    /\ entry[1] \in summoning_sick => entry[1] \in haste
    /\ \/ entry[2] \in Players /\ entry[2] # current_player
       \/ entry[2] \in CombatCards /\ controller[entry[2]] \in Players

\* entry k of the batch passes: the checks hold and no earlier entry of the
\* batch has already sent the same creature to attack
Passes(batch, k) ==
    /\ PassesChecks(batch[k])
    /\ \A j \in 1..(k - 1) :
           batch[j][1] = batch[k][1] => ~PassesChecks(batch[j])

CombatOnlyMovesForward ==
    [][/\ (last'.op = "declare_blockers" /\ Recorded(log', "blocks") # {})
           => declared # "none" /\ ~damageAssigned
       /\ (last'.op = "declare_attackers" /\ Recorded(log', "attacks") # {})
           => declared # "blockers" /\ ~damageAssigned
      ]_vars

\* the phases of a combat
CombatPhases ==
    {"Beginning of Combat", "Declare Attackers", "Declare Blockers",
     "Combat Damage", "End of Combat"}

\* C14: a combat starts from Idle: when a combat begins no attacker and no
\* blocker of an earlier combat is still recorded, and assign_combat_damage
\* in a combat in which nothing has been declared deals no damage.
NewCombatStartsIdle ==
    [][/\ (last'.op = "advance_phase"
           /\ current_phase' = "Beginning of Combat")
           => attackers' = <<>> /\ blockers' = <<>>
       /\ (last'.op = "assign_combat_damage"
           /\ current_phase \in CombatPhases
           /\ declared = "none")
           => log' = <<>> /\ life' = life /\ damage' = damage
      ]_vars

\* C15: every creature in a list of the blockers map is a key of the
\* attackers map.
BlockersMapToAttackers ==
    \A i \in 1..Len(blockers) :
        \A j \in 1..Len(blockers[i].value) :
            HasKey(attackers, blockers[i].value[j])

\* b1 blocks a1, its block of a2, which does not attack, was skipped
WitnessBlockOfNonAttackerSkipped ==
    /\ last.op = "declare_blockers"
    /\ assignments = <<<<"b1", "a2">>, <<"b1", "a1">>>>
    /\ blockers = <<[key |-> "b1", value |-> <<"a1">>]>>
    /\ log[1] = Message("a2", "is not attacking", "P2", 0)

\* the sum of the amounts of the messages of a log at a set of positions
RECURSIVE SumAmounts(_, _)
SumAmounts(messages, positions) ==
    IF positions = {} THEN 0
    ELSE LET k == CHOOSE k \in positions : TRUE
         IN  messages[k].amount + SumAmounts(messages, positions \ {k})

\* the blockers of an attacker as a set
BlockerSet(attacker) ==
    {blockers[i].key :
        i \in {j \in 1..Len(blockers) : InSeq(blockers[j].value, attacker)}}

\* the positions of the log at which an attacker assigns damage to one of
\* its blockers
Assignments(messages, attacker) ==
    {k \in 1..Len(messages) :
        /\ messages[k].text = "deals damage to"
        /\ messages[k].subject = attacker
        /\ messages[k].object \in BlockerSet(attacker)}

\* the positions of the log at which a creature is dealt damage
DamageTo(messages, creature) ==
    {k \in 1..Len(messages) :
        /\ messages[k].text = "deals damage to"
        /\ messages[k].object = creature}

\* the power an attacker has left before position k of the log
RemainingBefore(messages, attacker, k) ==
    power[attacker]
        - SumAmounts(messages,
                     {j \in Assignments(messages, attacker) : j < k})

\* the damage marked on a creature before position k of the log
MarkedBefore(messages, creature, k) ==
    damage[creature]
        + SumAmounts(messages, {j \in DamageTo(messages, creature) : j < k})

\* the attackers that are blocked
BlockedAttackers == {a \in Keys(attackers) : BlockerSet(a) # {}}

\* C16: a blocked attacker without deathtouch assigns damage to its
\* blockers in blocker-list order, to each the minimum of the power it has
\* left and the blocker's toughness minus the damage already marked on it,
\* and stops as soon as no power is left: later blockers receive nothing.
DamageInBlockerOrder ==
    [][last'.op = "assign_combat_damage" =>
         \A a \in BlockedAttackers \ deathtouch :
             LET bl == BlockersOf(blockers, a)
                 at == Assignments(log', a)
                 n == Cardinality(at)
             IN  /\ n >= 1 /\ n <= Len(bl)
                 /\ \A k \in at :
                        /\ log'[k].object
                               = bl[Cardinality({j \in at : j <= k})]
                        /\ log'[k].amount <= RemainingBefore(log', a, k)
                        /\ log'[k].amount
                               <= toughness[log'[k].object]
                                    - MarkedBefore(log', log'[k].object, k)
                        /\ log'[k].amount
                               \in {RemainingBefore(log', a, k),
                                    toughness[log'[k].object]
                                      - MarkedBefore(log', log'[k].object,
                                                     k)}
                        /\ \A j \in at :
                               j > k => RemainingBefore(log', a, j) > 0
                 /\ n < Len(bl) =>
                        power[a] - SumAmounts(log', at) <= 0
                 /\ \A i \in 1..Len(bl) :
                        damage'[bl[i]]
                            = damage[bl[i]]
                                + SumAmounts(log', DamageTo(log', bl[i]))
      ]_vars

\* a3, power 3 and no deathtouch, was blocked by b1 (toughness 3) and then
\* b2: b1 has taken all 3, b2 nothing
WitnessPowerRanOut ==
    /\ last.op = "assign_combat_damage"
    /\ attackers = <<[key |-> "a3", value |-> "P2"]>>
    /\ blockers = <<[key |-> "b1", value |-> <<"a3">>],
                    [key |-> "b2", value |-> <<"a3">>]>>
    /\ log[1] = Message("a3", "deals damage to", "b1", 3)
    /\ Assignments(log, "a3") = {1}
    /\ damage["b1"] = 3 /\ damage["b2"] = 0

\* the attacker's assignments to its blockers follow the blocker list and
\* are of 1 each
AssignsOneInOrder(a) ==
    \A k \in Assignments(log', a) :
        /\ log'[k].amount = 1
        /\ log'[k].object
               = BlockersOf(blockers, a)[
                     Cardinality({j \in Assignments(log', a) : j <= k})]

\* an attacker without trample deals nothing to its defender
NothingToDefender(a) ==
    a \notin trample =>
        \A k \in 1..Len(log') :
            log'[k].subject = a => log'[k].object \in BlockerSet(a)

\* every blocker of the attacker ends with the damage the log lists for it
BlockersMarked(a) ==
    \A b \in BlockerSet(a) :
        damage'[b] = damage[b] + SumAmounts(log', DamageTo(log', b))

\* C17 as stated: a blocked attacker with deathtouch assigns exactly 1
\* damage to each of its blockers, and without trample nothing to the
\* defender.
DeathtouchAssignsOneToEach ==
    [][last'.op = "assign_combat_damage" =>
         \A a \in BlockedAttackers \cap deathtouch :
             /\ AssignsOneInOrder(a)
             /\ Cardinality(Assignments(log', a))
                    = Cardinality(BlockerSet(a))
             /\ NothingToDefender(a)
             /\ BlockersMarked(a)
      ]_vars

\* C17 amended: a blocked attacker with deathtouch assigns exactly 1 damage
\* to each blocker in blocker-list order and stops after the assignment
\* that leaves it no power, so blockers beyond its power receive nothing;
\* without trample the power left over deals nothing to the defender.
DeathtouchAssignsOneWhilePowerLasts ==
    [][last'.op = "assign_combat_damage" =>
         \A a \in BlockedAttackers \cap deathtouch :
             LET n == Cardinality(Assignments(log', a))
             IN  /\ AssignsOneInOrder(a)
                 /\ n >= 1 /\ n <= Cardinality(BlockerSet(a))
                 /\ n < Cardinality(BlockerSet(a)) => power[a] - n <= 0
                 /\ \A i \in 1..(n - 1) : power[a] - i > 0
                 /\ NothingToDefender(a)
                 /\ BlockersMarked(a)
      ]_vars

\* a1, power 4 with deathtouch and no trample, was blocked by b1
\* (toughness 3) and then b2 (toughness 2): each carries 1 damage, P2 has
\* lost nothing
WitnessDeathtouchPowerFour ==
    /\ last.op = "assign_combat_damage"
    /\ power["a1"] = 4
    /\ attackers = <<[key |-> "a1", value |-> "P2"]>>
    /\ blockers = <<[key |-> "b1", value |-> <<"a1">>],
                    [key |-> "b2", value |-> <<"a1">>]>>
    /\ log[1] = Message("a1", "deals damage to", "b1", 1)
    /\ log[2] = Message("a1", "deals damage to", "b2", 1)
    /\ damage["b1"] = 1 /\ damage["b2"] = 1
    /\ life["P2"] = StartLife

\* the positions of the log at which damage is dealt to a defender
ToDefender(messages, defender) ==
    {k \in 1..Len(messages) :
        /\ messages[k].text \in {"deals damage to",
                                  "deals trample damage to"}
        /\ messages[k].object = defender}

\* C18: power left over after the blockers is dealt to the defender only
\* when the attacker has trample: a player's life changes by what the
\* unblocked attackers and the blocked attackers with trample deal, and a
\* blocked attacker without trample deals nothing to its defender.
LeftoverOnlyWithTrample ==
    [][last'.op = "assign_combat_damage" =>
         /\ \A k \in 1..Len(log') :
                log'[k].object \in Players =>
                    /\ HasKey(attackers, log'[k].subject)
                    /\ Get(attackers, log'[k].subject) = log'[k].object
                    /\ \/ log'[k].subject \notin BlockedAttackers
                       \/ /\ log'[k].subject \in trample
                          /\ log'[k].text = "deals trample damage to"
                          /\ log'[k].amount
                                 = power[log'[k].subject]
                                     - SumAmounts(log',
                                           Assignments(log',
                                                       log'[k].subject))
         /\ \A p \in Players :
                life'[p] = life[p] - SumAmounts(log', ToDefender(log', p))
      ]_vars

\* a1, power 4 without trample, was blocked by b1 alone: 3 power was left
\* over and P2 has lost nothing
WitnessLeftoverDiscarded ==
    /\ last.op = "assign_combat_damage"
    /\ power["a1"] = 4
    /\ attackers = <<[key |-> "a1", value |-> "P2"]>>
    /\ blockers = <<[key |-> "b1", value |-> <<"a1">>]>>
    /\ Len(log) = 2
    /\ life["P2"] = StartLife

\* C19: an unblocked attacker deals its full power to its defender: a
\* player loses that much life, a planeswalker that much loyalty.
UnblockedDealsFullPower ==
    [][last'.op = "assign_combat_damage" =>
         /\ \A a \in Keys(attackers) \ BlockedAttackers :
                \E k \in ToDefender(log', Get(attackers, a)) :
                    log'[k].subject = a /\ log'[k].amount = power[a]
         /\ \A p \in Players :
                life'[p] = life[p] - SumAmounts(log', ToDefender(log', p))
         /\ \A w \in DOMAIN loyalty :
                loyalty'[w]
                    = loyalty[w] - SumAmounts(log', ToDefender(log', w))
      ]_vars

\* what the blockers of an attacker deal to it together
RECURSIVE DealtBack(_)
DealtBack(bs) ==
    IF bs = {} THEN 0
    ELSE LET b == CHOOSE b \in bs : TRUE
         IN  (IF b \in deathtouch THEN 1 ELSE power[b])
             + DealtBack(bs \ {b})

\* C20: every blocker of an attacker, also one the attacker assigned no
\* damage to, deals its power, or 1 if it has deathtouch, to the attacker:
\* the attacker's marked damage grows by the sum over its blockers.
BlockersDealDamageBack ==
    [][last'.op = "assign_combat_damage" =>
         \A a \in Keys(attackers) :
             damage'[a] = damage[a] + DealtBack(BlockerSet(a))
      ]_vars

\* a1 with power 1 was blocked by b1 (power 2) and then b2 (power 3,
\* deathtouch): b2 received nothing, and a1 carries 2 + 1 damage
WitnessUndamagedBlockerDealsDamage ==
    /\ last.op = "assign_combat_damage"
    /\ power["a1"] = 1
    /\ attackers = <<[key |-> "a1", value |-> "P2"]>>
    /\ blockers = <<[key |-> "b1", value |-> <<"a1">>],
                    [key |-> "b2", value |-> <<"a1">>]>>
    /\ damage["b2"] = 0
    /\ damage["a1"] = 3

\* C21: assign_combat_damage only marks damage and changes life totals: no
\* card changes zone, no zone list, controller, tapped flag or status
\* changes, and the attackers and blockers stay as declared, also when the
\* damage marked on a creature is lethal.
DamageMovesNoCard ==
    [][last'.op = "assign_combat_damage" =>
         /\ cardZone' = cardZone
         /\ zones' = zones
         /\ controller' = controller
         /\ tapped' = tapped /\ status' = status
         /\ attackers' = attackers /\ blockers' = blockers
         /\ power' = power /\ toughness' = toughness
      ]_vars

\* b2 (toughness 2) blocked a3 (power 3) and carries lethal damage, and it
\* is still on the battlefield
WitnessLethalDamageStays ==
    /\ last.op = "assign_combat_damage"
    /\ HasKey(blockers, "b2")
    /\ damage["b2"] >= toughness["b2"]
    /\ cardZone["b2"] = "battlefield"

\* the five checks of declare_blockers on a (blocker, attacker) pair
BlockPasses(entry) ==
    /\ cardZone[entry[1]] = "battlefield"
    /\ controller[entry[1]] = players[((turn_index + 1) % 2) + 1]
    /\ type_line[entry[1]] \in {"Creature - Dummy", "Artifact Creature - Golem"}
    /\ ~tapped[entry[1]]
    /\ \E i \in 1..Len(attackers) : attackers[i].key = entry[2]

\* the attackers the pairs of a batch that pass give to a blocker, in order
RECURSIVE BlockedBy(_, _)
BlockedBy(batch, blocker) ==
    IF batch = <<>> THEN <<>>
    ELSE (IF Head(batch)[1] = blocker /\ BlockPasses(Head(batch))
          THEN <<Head(batch)[2]>> ELSE <<>>)
         \o BlockedBy(Tail(batch), blocker)

\* the attackers a dictionary of blocks lists for a blocker
ListOf(d, blocker) == IF HasKey(d, blocker) THEN Get(d, blocker) ELSE <<>>

UnknownLeafOnlyLogs ==
    [][last'.op = "execute" /\ executed'.card = "chain" =>
         /\ last'.error = "none"
         /\ returned'
               = <<Message("P1", "loses life", "", 1),
                   Message("", "[UNKNOWN EFFECT]", "", 0),
                   Message("", "  Action:", "return_to_hand", 0),
                   Message("", "  Raw Text:",
                           "return it to its owner's hand", 0),
                   Message("", "  Full Effect:",
                           [node |-> [action |-> "return_to_hand",
                                      id |-> 1,
                                      raw_text |->
                                        "return it to its owner's hand"]],
                           0),
                   Message("P1", "gains life", "", 2)>>
         /\ life' = [life EXCEPT !["P1"] = @ + 1]
         /\ damage' = damage /\ zones' = zones /\ cardZone' = cardZone
         /\ controller' = controller /\ registered' = registered
      ]_vars

\* the chain with the unknown leaf was executed: the block was logged and
\* the gain of 2 life after it took place
WitnessChainWentOn ==
    /\ last.op = "execute"
    /\ executed.card = "chain"
    /\ Len(returned) = 6
    /\ returned[2].text = "[UNKNOWN EFFECT]"
    /\ returned[6] = Message("P1", "gains life", "", 2)
    /\ life["P1"] = StartLife + 1

\* C24: a pronoun binding lives for one execute call: the leaf with the
\* reference tag that_creature damages the creature its own context binds
\* to the tag, and nothing when its own context binds none, whatever an
\* earlier execution of the same tree was given.
ReferenceResolvedAfresh ==
    [][last'.op = "execute" /\ executed'.card = "pronoun" =>
         IF Has(executed'.dynamic_refs, "that_creature")
         THEN /\ returned'
                    = <<Message(executed'.dynamic_refs.that_creature,
                                "takes damage (marked)", "", 1)>>
              /\ damage'
                    = [damage EXCEPT
                          ![executed'.dynamic_refs.that_creature] = @ + 1]
         ELSE returned' = <<>> /\ damage' = damage
      ]_vars

\* C25: a modal node executes the choice at flags["modal_choice"] when the
\* index was supplied and is in range, and only that one; with no index
\* supplied or one out of range it executes nothing and changes no game
\* state.
ModalExecutesSuppliedChoiceOnly ==
    [][last'.op = "execute" /\ executed'.card = "modal" =>
         LET flags == executed'.flags IN
         /\ damage' = damage /\ zones' = zones /\ cardZone' = cardZone
         /\ IF Has(flags, "modal_choice") /\ flags.modal_choice = 0
            THEN /\ returned' = <<Message("P1", "gains life", "", 3)>>
                 /\ life' = [life EXCEPT !["P1"] = @ + 3]
            ELSE IF Has(flags, "modal_choice") /\ flags.modal_choice = 1
            THEN /\ returned'
                       = <<Message("P2", "takes damage (life)", "", 1)>>
                 /\ life' = [life EXCEPT !["P2"] = @ - 1]
            ELSE returned' = <<>> /\ life' = life
      ]_vars

MaximalMunch ==
    last.op = "tokenize" =>
        \A phrase \in WordLists.trigger_words \cup WordLists.timing_modifiers :
            Occurrences(Texts[source_text].words, phrase) # {}
                => \E k \in 1..Len(parsed) : parsed[k].value = phrase

\* combined_subject of the clause: the words of the tokens after the
\* trigger word that the loop collects as subject tokens
SubjectOf(text) ==
    Joined(Collect(tokenize(WordLists, text), 2,
               [i |-> 2, in_condition |-> FALSE, subject_tokens |-> <<>>,
                action_tokens |-> <<>>, condition_tokens |-> <<>>])
           .subject_tokens)

PhraseDies == <<"dies">>
PhraseIsExiled == <<"is", "exiled">>
PhraseEnters == <<"enters", "the", "battlefield">>
PhraseLeaves == <<"leaves", "the", "battlefield">>

\* C30, as stated: a subject that contains "dies", "is exiled", "enters
\* the battlefield" or "leaves the battlefield" yields battlefield to
\* graveyard, battlefield to exile, to battlefield or from battlefield
\* respectively, and a subject that contains none of them yields no
\* zone change.
ZoneChangeOfEachPhrase ==
    last.op = "parse_trigger_clause" =>
        LET subject == SubjectOf(Texts[source_text])
            zone_change == parsed.event.zone_change
        IN  /\ In(PhraseDies, subject) =>
                   zone_change = [from |-> "battlefield", to |-> "graveyard"]
            /\ In(PhraseIsExiled, subject) =>
                   zone_change = [from |-> "battlefield", to |-> "exile"]
            /\ In(PhraseEnters, subject) =>
                   zone_change = [to |-> "battlefield"]
            /\ In(PhraseLeaves, subject) =>
                   zone_change = [from |-> "battlefield"]
            /\ (\A phrase \in {PhraseDies, PhraseIsExiled, PhraseEnters,
                               PhraseLeaves} : ~In(phrase, subject)) =>
                   zone_change = None

\* C30, amended: the zone change is that of the first of the four phrases,
\* in the order "dies", "is exiled", "enters the battlefield", "leaves the
\* battlefield", that the subject contains, and there is none when the
\* subject contains none of them.
ZoneChangeOfFirstPhrase ==
    last.op = "parse_trigger_clause" =>
        LET subject == SubjectOf(Texts[source_text])
            order == <<PhraseDies, PhraseIsExiled, PhraseEnters, PhraseLeaves>>
            mapping == <<[from |-> "battlefield", to |-> "graveyard"],
                         [from |-> "battlefield", to |-> "exile"],
                         [to |-> "battlefield"],
                         [from |-> "battlefield"]>>
            found == {k \in 1..4 : In(order[k], subject)}
        IN  /\ found = {} => parsed.event.zone_change = None
            /\ \A k \in found :
                   (\A j \in found : k <= j) =>
                       parsed.event.zone_change = mapping[k]

\* a clause whose subject contains both "dies" and "is exiled" has been
\* parsed
WitnessDiesOrIsExiled ==
    /\ last.op = "parse_trigger_clause"
    /\ In(PhraseDies, SubjectOf(Texts[source_text]))
    /\ In(PhraseIsExiled, SubjectOf(Texts[source_text]))
    /\ parsed.event.zone_change = [from |-> "battlefield", to |-> "graveyard"]

\* C28: compile terminates because every recursive compile call receives
\* a strictly shorter text than its caller, whether the segment holds
\* "for each", "repeat this process" or an if/then/otherwise.
RecursiveCompileGetsShorterText ==
    \A i \in 2..Len(calls) : Size(calls[i].text) < Size(calls[i - 1].text)

\* the text with every capital replaced by its small letter
InSmallLetters(text) == [text EXCEPT !.capitals = {}]

\* the leaves of the list handed to the last parse_ast call whose text
\* contains no registered phrase
UnregisteredLeaves ==
    {k \in 1..Len(Asts[source_text]) :
        /\ Asts[source_text][k].type = "effect"
        /\ Matching(InSmallLetters(Asts[source_text][k].content)) = {}}

\* C29: a leaf whose text contains no registered phrase becomes the action
\* "unparsed_effect" whose raw text is the leaf's original text, character
\* for character.
UnparsedKeepsOriginalText ==
    last.op = "parse_ast" =>
        \A k \in UnregisteredLeaves :
            parsed.effect_chain[k] =
                [action |-> "unparsed_effect",
                 raw_text |-> Asts[source_text][k].content]

\* what parse_ast does keep: it returns a tree for every node list; a leaf
\* whose text contains no registered phrase becomes the action
\* "unparsed_effect" whose raw text is the leaf's text in small letters,
\* and the other nodes of the list are still parsed: the chain has one
\* entry for each node, and a leaf that says "draw a card" becomes the
\* action "draw_card".
UnparsedKeepsTextInSmallLetters ==
    last.op = "parse_ast" =>
        /\ Len(parsed.effect_chain) = Len(Asts[source_text])
        /\ \A k \in UnregisteredLeaves :
               parsed.effect_chain[k] =
                   [action |-> "unparsed_effect",
                    raw_text |-> InSmallLetters(Asts[source_text][k].content)]
        /\ \A k \in 1..Len(Asts[source_text]) :
               (/\ Asts[source_text][k].type = "effect"
                /\ Holds(InSmallLetters(Asts[source_text][k].content),
                         <<"draw", "a", "card">>))
                   => parsed.effect_chain[k] = [action |-> "draw_card"]

\* a list whose first leaf is written with a capital and contains no
\* registered phrase, and whose second leaf is parsed, has been parsed
WitnessUnparsedLeafWithCapital ==
    /\ last.op = "parse_ast"
    /\ 1 \in UnregisteredLeaves
    /\ Asts[source_text][1].content.capitals # {}
    /\ parsed.effect_chain[1].action = "unparsed_effect"
    /\ Len(parsed.effect_chain) = 2
    /\ parsed.effect_chain[2].action = "draw_card"

\* the tokens of the text the last parse_trigger_clause call was given
ClauseTokens == tokenize(WordLists, Texts[source_text])

\* the position of the clause boundary: the first "then" after the trigger
\* word, or the end of the tokens
Boundary ==
    LET thens == {k \in 2..Len(ClauseTokens) :
                     ClauseTokens[k].value = <<"then">>}
    IN  IF thens = {} THEN Len(ClauseTokens) + 1
        ELSE CHOOSE k \in thens : \A h \in thens : k <= h

\* the positions before the boundary that hold a condition word
ConditionWords ==
    {k \in 2..(Boundary - 1) : ClauseTokens[k].type = "CONDITION_WORD"}

\* C31: the switch to condition mode is one-way: from the first condition
\* word to the clause boundary every token is collected as a condition
\* token, so the condition is the text of all these tokens and the action
\* holds no token that comes after the first condition word.
ConditionModeIsOneWay ==
    (last.op = "parse_trigger_clause" /\ ConditionWords # {}) =>
        LET first == CHOOSE k \in ConditionWords :
                         \A h \in ConditionWords : k <= h
            actions == SelectSeq(SubSeq(ClauseTokens, 2, first - 1),
                           LAMBDA t : t.type \in {"ACTION_WORD",
                                                  "ABILITY_KEYWORD"})
        IN  /\ parsed.event.condition =
                   Joined(SubSeq(ClauseTokens, first, Boundary - 1))
            /\ parsed.event.action =
                   IF actions = <<>> THEN None ELSE Joined(actions)

\* a clause has been parsed in which an action word follows the first
\* condition word before the boundary
WitnessActionWordAfterCondition ==
    /\ last.op = "parse_trigger_clause"
    /\ ConditionWords # {}
    /\ \E k \in 2..(Boundary - 1) :
           /\ ClauseTokens[k].type = "ACTION_WORD"
           /\ \E h \in ConditionWords : h < k

\* ---------------------------------------------------------------------
\* Properties of repeated apply_layers calls (checked under SpecLayer)
\* ---------------------------------------------------------------------
\* C34: apply_layers recomputes rather than accumulates: an apply_layers
\* call that directly follows another one, with no descriptor registered
\* or removed in between, leaves every permanent's power, toughness and
\* ability list as the first call left them.
ApplyLayersRecomputes ==
    [][(last.op = "apply_layers" /\ last'.op = "apply_layers")
          => /\ power' = power
             /\ toughness' = toughness
             /\ abilities' = abilities]_vars

\* what does hold of the repeated call: the ability lists and the two
\* flags stay as they were, and each applied descriptor adds its boosts
\* once more
ApplyLayersAddsBoostsAgain ==
    [][(last.op = "apply_layers" /\ last'.op = "apply_layers")
          => /\ abilities' = abilities
             /\ life_gain_prevention' = life_gain_prevention
             /\ must_attack' = must_attack
             /\ \A c \in Perms :
                    cardZone[c] = "battlefield" =>
                       /\ power'[c] = power[c]
                              + BoostSum(ApplyOrder, c, TRUE)
                       /\ toughness'[c] = toughness[c]
                              + BoostSum(ApplyOrder, c, FALSE)]_vars

WitnessAppliedTwiceWithBoost ==
    /\ last.op = "apply_layers"
    /\ applyCount = 2
    /\ \E i \in 1..Len(applied) : applied[i].power_boost # 0

\* ---------------------------------------------------------------------
\* Properties of the parsed static abilities (checked under SpecRules)
\* ---------------------------------------------------------------------
\* C39: every descriptor the parsing side creates carries a layer that
\* register_effect accepts: registering a descriptor of a parsed card
\* never fails with a ValueError.
ParsedLayersAreAccepted ==
    last.op = "register_parsed" => last.error = "none"

\* what does hold: the descriptor parse_oracle_text creates is filed in
\* sublayer 7c, and no descriptor extract_abilities creates is accepted
PipelineAcceptedRulesLayerRejected ==
    last.op = "register_parsed" =>
        IF Has(parsed, "static_effects")
        THEN /\ last.error = "none"
             /\ last.layer = StrLayer("7c")
        ELSE last.error = "ValueError"

WitnessParsedDescriptorRejected ==
    /\ last.op = "register_parsed"
    /\ Has(parsed, "abilities")
    /\ last.layer = StrLayer("Layer 7c")
    /\ last.error = "ValueError"

WitnessPipelineDescriptorAccepted ==
    /\ last.op = "register_parsed"
    /\ Has(parsed, "static_effects")
    /\ Len(sublayers_7["7c"]) > 0

\* ---------------------------------------------------------------------
\* Properties of the order of pushed triggers (checked under SpecTrigger)
\* ---------------------------------------------------------------------
\* C38: check_and_push pushes the pending triggers in the order they were
\* queued: they lie above every entry that was on the stack before the
\* call, a trigger queued later lies above one queued earlier, and the
\* last queued is the top of the stack, the entry resolve_top takes first.
CheckAndPushKeepsQueueOrder ==
    [][(last'.op = "check_and_push" /\ pending # <<>>) =>
            \E place \in [1..Len(pending) -> 1..Len(stack')] :
                /\ \A k \in 1..Len(pending) :
                       /\ place[k] > Len(stack)
                       /\ stack'[place[k]].source = pending[k].source
                       /\ stack'[place[k]].effect_ir = pending[k].effect_ir
                /\ \A j, k \in 1..Len(pending) : j < k => place[j] < place[k]
                /\ place[Len(pending)] = Len(stack')
      ]_vars

\* what does hold: a call with triggers pending raises AttributeError,
\* loses the first pending trigger and leaves the stack as it was
CheckAndPushLosesFirstPending ==
    [][(last'.op = "check_and_push" /\ pending # <<>>) =>
            /\ last'.error = "AttributeError"
            /\ stack' = stack
            /\ pending' = Tail(pending)
      ]_vars

WitnessTwoPendingOverAnEntry ==
    /\ last.op = "check_and_push"
    /\ last.error = "AttributeError"
    /\ Len(pending) = 1
    /\ stack # <<>>

\* ---------------------------------------------------------------------
\* Properties of the sign of combat damage (checked under SpecDamaged)
\* ---------------------------------------------------------------------
\* C35: assign_combat_damage never assigns a negative amount: whatever
\* damage a blocker already carries, its marked damage does not decrease,
\* and no "deals damage to" line of the returned log carries a negative
\* amount, so the attacker's remaining power never increases.
NoNegativeCombatDamage ==
    [][last'.op = "assign_combat_damage" =>
            /\ \A c \in CombatCards : damage'[c] >= damage[c]
            /\ \A i \in 1..Len(log') : log'[i].amount >= 0
      ]_vars

\* what does hold: the damage of a blocker decreases only when it carried
\* more damage than its toughness
DamageDecreasesOnlyAboveToughness ==
    [][last'.op = "assign_combat_damage" =>
            \A c \in CombatCards :
                damage'[c] < damage[c] => damage[c] > toughness[c]
      ]_vars

WitnessDamageTakenBack ==
    /\ last.op = "assign_combat_damage"
    /\ \E i \in 1..Len(log) : log[i].amount < 0

\* ---------------------------------------------------------------------
\* Properties of the state-based actions (checked under SpecDamaged)
\* ---------------------------------------------------------------------
\* C36: after check_state_based_actions no creature permanent with
\* toughness 0 or less, or with marked damage at least its toughness, is
\* left on a battlefield; a creature is a card whose type line names the
\* type Creature, the test of declare_attackers and declare_blockers.
NoDeadCreatureAfterStateBasedActions ==
    last.op = "check_state_based_actions" =>
        \A p \in Players : \A i \in 1..Len(zones[p]["battlefield"]) :
            LET c == zones[p]["battlefield"][i]
            IN  type_line[c] \in {"Creature - Dummy",
                                  "Artifact Creature - Golem"}
                    => toughness[c] > 0 /\ damage[c] < toughness[c]

\* what does hold: the cards whose type line begins with Creature are
\* destroyed, each into its controller's graveyard
NoDeadPlainCreatureAfterStateBasedActions ==
    last.op = "check_state_based_actions" =>
        \A c \in CombatCards :
            (type_line[c] = "Creature - Dummy" /\ damage[c] >= toughness[c])
                => /\ cardZone[c] = "graveyard"
                   /\ \A p \in Players :
                          /\ ~InSeq(zones[p]["battlefield"], c)
                          /\ InSeq(zones[p]["graveyard"], c)
                                 <=> controller[c] = p

WitnessLethalDamageDestroysPlainCreature ==
    /\ last.op = "check_state_based_actions"
    /\ damage["b1"] >= toughness["b1"]
    /\ InSeq(zones["P2"]["graveyard"], "b1")
    /\ damage["b3"] >= toughness["b3"]
    /\ InSeq(zones["P2"]["battlefield"], "b3")

\* ---------------------------------------------------------------------
\* Properties of the zones (checked under SpecZones)
\* ---------------------------------------------------------------------
\* the places a card has in the zone lists of all players
PlacesOf(card) ==
    {<<p, z, i>> \in Players \X ZoneNames \X (1..Cardinality(Perms)) :
        i <= Len(zones[p][z]) /\ zones[p][z][i] = card}

\* C37: after any sequence of move_card, draw and play_land every card is
\* in at most one zone list across all players, and card.zone names the
\* zone list that contains it.
ZoneNamesTheListOfTheCard ==
    \A card \in Perms :
        /\ Cardinality(PlacesOf(card)) <= 1
        /\ \A place \in PlacesOf(card) : cardZone[card] = place[2]

\* what does hold: a card is in at most one zone list, once; after
\* move_card and after a land was played card.zone names that list, and
\* card.zone differs from it only while the card is in a hand it was
\* drawn into
CardIsInOneList ==
    /\ \A card \in Perms :
           /\ Cardinality(PlacesOf(card)) <= 1
           /\ \A place \in PlacesOf(card) :
                  cardZone[card] # place[2] =>
                      place[2] = "hand" /\ cardZone[card] = "library"
    /\ (last.op = "play_land" /\ last.outcome = "played") =>
           \E card \in Perms :
               /\ cardZone[card] = "battlefield"
               /\ \E p \in Players :
                      /\ zones[p]["battlefield"] # <<>>
                      /\ zones[p]["battlefield"][Len(zones[p]["battlefield"])]
                             = card

WitnessDrawnCardPlayedAsLand ==
    /\ last.op = "play_land"
    /\ last.outcome = "played"
    /\ \E card \in Perms, p \in Players :
           /\ cardZone[card] = "library"
           /\ InSeq(zones[p]["hand"], card)

\* ---------------------------------------------------------------------
\* Properties of the game manager (checked under SpecManager and
\* SpecManagerLive)
\* ---------------------------------------------------------------------
\* C32: in headless mode the game makes progress: an execute_turn call
\* that is running eventually reaches Cleanup and returns, handing the
\* turn to the next player.
HeadlessTurnReturns ==
    (headless_mode /\ pc = "turn") ~> (pc = "idle")

\* what does hold: in headless mode the phase never leaves Untap and no
\* stack entry is resolved, and an interactive execute_turn call returns
HeadlessStaysInUntap ==
    headless_mode => /\ current_index = 0
                     /\ resolved = {}
                     /\ turns = 0

InteractiveTurnReturns ==
    (~headless_mode /\ pc = "turn") ~> (pc = "idle")

WitnessHeadlessPassedTwice ==
    /\ headless_mode
    /\ pc = "turn"
    /\ last.op = "execute_phase"
    /\ passed = <<FALSE, FALSE>>
    /\ stack # <<>>

\* C33: in the interactive priority loop the top stack entry is resolved
\* only by the pass that follows the other player's pass, priority is
\* reset after each resolution, and the phase advances only by such a
\* second pass made with an empty stack.
InteractiveLoopWaitsForBothPasses ==
    [][pc = "loop" =>
          /\ stack' # stack =>
                 /\ passed = <<TRUE, FALSE>> /\ active_index = 1
                 /\ stack' = SubSeq(stack, 1, Len(stack) - 1)
                 /\ passed' = <<FALSE, FALSE>> /\ active_index' = 0
                 /\ current_index' = current_index
                 /\ pc' = "loop"
          /\ current_index' # current_index =>
                 /\ passed = <<TRUE, FALSE>> /\ active_index = 1
                 /\ stack = <<>>
                 /\ passed' = <<FALSE, FALSE>> /\ active_index' = 0
          /\ passed = <<FALSE, FALSE>> =>
                 /\ stack' = stack
                 /\ resolved' = resolved
                 /\ current_index' = current_index
                 /\ passed' = <<TRUE, FALSE>> /\ active_index' = 1
      ]_vars

\* the loop has resolved an entry and another entry is still on the stack
WitnessResolvedInLoop ==
    /\ ~headless_mode
    /\ pc = "loop"
    /\ last.op = "pass_priority"
    /\ last.outcome = "resolved"
    /\ stack # <<>>
    /\ passed = <<FALSE, FALSE>>

============================================================================
